---- MODULE Spec2Model ----
(***************************************************************************)
(* Model of the per-CPU real-time scheduler of                             *)
(* src/nautilus/src/nautilus/rt_scheduler.c: thread descriptors, the three *)
(* heap queues and four ring queues, the dispatcher rt_need_resched with   *)
(* set_timer, the admission test rt_admit, rt_thread_exit and the          *)
(* housekeeping loop of sched_sim.                                         *)
(*                                                                         *)
(* Conventions.                                                            *)
(*  - Descriptors are the numbers 1..NumThreads; NULLT is the C NULL.      *)
(*  - A heap queue is the dense prefix threads[0..size-1] of its array,    *)
(*    kept as a sequence.  The only slot outside the prefix that the code  *)
(*    reads is threads[size] inside the sift-down loops, and that slot     *)
(*    always still holds `last`; HeapAt returns it.                        *)
(*  - A ring queue keeps its array; a dequeue does not clear the slot.     *)
(*  - cur_time() is the variable now.  The reads of the cycle counter made *)
(*    during one call of a scheduler function return the same value.       *)
(*  - uint64_t arithmetic is arithmetic modulo UWRAP.                      *)
(***************************************************************************)
EXTENDS Integers, Sequences, FiniteSets, TLC

\* ------------------------------------------------------------- bounds
NumThreads == 5
MaxSpawn == 2
MaxTime == 5
MaxExit == 1
MaxKey == 2
MaxLate == 9
UWRAP == 1073741824

\* --------------------------------------------------- program constants
APERIODIC == 0
SPORADIC == 1
PERIODIC == 2

PERIODIC_UTIL == 65000
SPORADIC_UTIL == 18000

ARRIVED == 0
ADMITTED == 1
WAITING == 2
RUNNING == 3
TOBE_REMOVED == 4
REMOVED == 5
SLEEPING == 6

RUNNABLE_QUEUE == 0
PENDING_QUEUE == 1
APERIODIC_QUEUE == 2
ARRIVAL_QUEUE == 3
WAITING_QUEUE == 4
SLEEPING_QUEUE == 5
EXITED_QUEUE == 6
MAX_QUEUE == 4

QUANTUM == 10000000

NULLT == 0
NOQ == 7

Threads == 1..NumThreads
HeapQueues == {RUNNABLE_QUEUE, PENDING_QUEUE, APERIODIC_QUEUE}
RingQueues == {ARRIVAL_QUEUE, WAITING_QUEUE, SLEEPING_QUEUE, EXITED_QUEUE}

VARIABLES
    thr,        \* descriptor fields, per descriptor
    allocated,  \* descriptors rt_thread_init has returned
    hp,         \* heap queues: hp[q] is threads[0..size-1] of queue q
    rg,         \* ring queues: rg[q] = [head, tail, size, threads]
    cur,        \* get_cur_thread()->rt_thread
    now,        \* the cycle counter
    tsc,        \* scheduler->tsc: start_time, set_time, end_time
    apic,       \* last value handed to apic_oneshot_write
    sys,        \* "RUN", or why the CPU stopped: "PANIC", "FAULT"
    hk,         \* housekeeper: [pc, d]
    parked,     \* descriptors admission has accepted
    nexit,      \* number of calls of rt_thread_exit so far
    ev,         \* the operation that produced this state
    out,        \* per heap queue: the descriptors its dequeues returned, in order
    fifo        \* per ring queue: the descriptors enqueued and not yet taken, oldest first

vars == <<thr, allocated, hp, rg, cur, now, tsc, apic, sys, hk, parked, nexit, ev,
          out, fifo>>

\* ------------------------------------------------------------ helpers
parent(i) == IF i # 0 THEN (i - 1) \div 2 ELSE 0
left_child(i) == 2 * i + 1
right_child(i) == 2 * i + 2
umin(x, y) == IF x < y THEN x ELSE y
U64(x) == x % UWRAP

\* the ordering key of a heap queue: deadline, or aperiodic.priority
HeapKey(T, q, t) == IF q = APERIODIC_QUEUE THEN T[t].priority ELSE T[t].deadline

\* threads[i] of a heap whose dense prefix is a; slot Len(a) holds last
HeapAt(a, last, i) == IF i < Len(a) THEN a[i + 1] ELSE last

\* the records of the dequeues of the heap queues and of the contents of the
\* ring queues, kept where the queues are driven alone
NoOut == [q \in HeapQueues |-> <<>>]
NoFifo == [q \in RingQueues |-> <<>>]

NoEvent == [op |-> "none", t |-> NULLT, ret |-> NULLT, prev |-> NULLT,
            rel |-> {}, q |-> NOQ]

\* ----------------------------------------------------------- enqueue
\* the sift-up loop of the heap branches: a is the array with thread at pos
RECURSIVE SiftUp(_, _, _, _, _)
SiftUp(T, q, a, pos, t) ==
    IF HeapKey(T, q, a[parent(pos) + 1]) > HeapKey(T, q, t) /\ pos # parent(pos)
    THEN SiftUp(T, q, [a EXCEPT ![pos + 1] = a[parent(pos) + 1]], parent(pos), t)
    ELSE [a EXCEPT ![pos + 1] = t]

\* enqueue_thread whose heap branches store the thread in the first free slot
\* and leave out the sift-up loop
enqueue_thread_NoSiftUp(W, q, t) ==
    IF q \in HeapQueues
    THEN IF Len(W.hp[q]) = MAX_QUEUE
         THEN W
         ELSE [W EXCEPT !.hp[q] = Append(W.hp[q], t), !.thr[t].q_type = q]
    ELSE W

\* enqueue_thread whose ring branches store the thread in front of head
\* instead of at tail
enqueue_thread_RingPush(W, q, t) ==
    IF q \in HeapQueues
    THEN IF Len(W.hp[q]) = MAX_QUEUE
         THEN W
         ELSE [W EXCEPT
                 !.hp[q] = SiftUp(W.thr, q, Append(W.hp[q], t), Len(W.hp[q]), t),
                 !.thr[t].q_type = q]
    ELSE IF W.rg[q].size = MAX_QUEUE
         THEN W
         ELSE [W EXCEPT
                 !.rg[q].size = W.rg[q].size + 1,
                 !.rg[q].head = (W.rg[q].head + MAX_QUEUE - 1) % MAX_QUEUE,
                 !.rg[q].threads[(W.rg[q].head + MAX_QUEUE - 1) % MAX_QUEUE] = t,
                 !.thr[t].q_type = q]

\* enqueue_thread that stamps the queue tag before it looks at the size
enqueue_thread_TagFirst(W, q, t) ==
    IF q \in HeapQueues
    THEN IF Len(W.hp[q]) = MAX_QUEUE
         THEN [W EXCEPT !.thr[t].q_type = q]
         ELSE [W EXCEPT
                 !.hp[q] = SiftUp(W.thr, q, Append(W.hp[q], t), Len(W.hp[q]), t),
                 !.thr[t].q_type = q]
    ELSE IF W.rg[q].size = MAX_QUEUE
         THEN [W EXCEPT !.thr[t].q_type = q]
         ELSE [W EXCEPT
                 !.rg[q].size = W.rg[q].size + 1,
                 !.rg[q].tail = (W.rg[q].tail + 1) % MAX_QUEUE,
                 !.rg[q].threads[W.rg[q].tail] = t,
                 !.thr[t].q_type = q]

\* enqueue_thread(queue, thread) on the world W = [thr, hp, rg]
enqueue_thread(W, q, t) ==
    IF q \in HeapQueues
    THEN IF Len(W.hp[q]) = MAX_QUEUE
         THEN W
         ELSE [W EXCEPT
                 !.hp[q] = SiftUp(W.thr, q, Append(W.hp[q], t), Len(W.hp[q]), t),
                 !.thr[t].q_type = q]
    ELSE IF W.rg[q].size = MAX_QUEUE
         THEN W
         ELSE LET r == W.rg[q]
                  pos == r.tail
                  tl == IF r.tail + 1 = MAX_QUEUE THEN 0 ELSE r.tail + 1
              IN [W EXCEPT
                    !.rg[q] = [r EXCEPT !.size = r.size + 1, !.tail = tl,
                                        !.threads[pos] = t],
                    !.thr[t].q_type = q,
                    !.thr[t].status =
                        IF q = ARRIVAL_QUEUE THEN ARRIVED
                        ELSE IF q = WAITING_QUEUE THEN WAITING
                        ELSE IF q = SLEEPING_QUEUE THEN SLEEPING
                        ELSE W.thr[t].status]

\* ----------------------------------------------------------- dequeue
\* the sift-down loop shared by dequeue_thread and remove_thread: a is
\* threads[0..size-1] after --size, cursor is the loop variable `now`
RECURSIVE SiftDown(_, _, _, _, _)
SiftDown(T, q, a, last, cursor) ==
    IF left_child(cursor) < Len(a)
    THEN LET l == left_child(cursor)
             r == right_child(cursor)
             child == IF l < Len(a)
                         /\ HeapKey(T, q, HeapAt(a, last, r)) < HeapKey(T, q, HeapAt(a, last, l))
                      THEN r ELSE l
         IN IF HeapKey(T, q, last) > HeapKey(T, q, HeapAt(a, last, child))
            THEN SiftDown(T, q, [a EXCEPT ![cursor + 1] = HeapAt(a, last, child)],
                          last, child)
            ELSE [a EXCEPT ![cursor + 1] = last]
    ELSE IF cursor < Len(a) THEN [a EXCEPT ![cursor + 1] = last] ELSE a

\* HeapPop without the sift-down loop: the last entry is left at the root
HeapPop_NoSift(T, q, h) ==
    IF Len(h) < 2 THEN <<>> ELSE <<h[Len(h)]>> \o SubSeq(h, 2, Len(h) - 1)

\* one pass of a heap branch: remove the root, re-heapify
HeapPop(T, q, h) ==
    LET last == h[Len(h)]
        a == SubSeq(h, 1, Len(h) - 1)
    IN SiftDown(T, q, a, last, 0)

\* dequeue_thread(queue): [W, ret]; a TOBE_REMOVED descriptor is dropped and
\* the call repeats (the statement `min->status == REMOVED;` has no effect)
RECURSIVE dequeue_thread(_, _)
dequeue_thread(W, q) ==
    IF q \in HeapQueues
    THEN IF Len(W.hp[q]) < 1
         THEN [W |-> W, ret |-> NULLT]
         ELSE LET min == W.hp[q][1]
                  W1 == [W EXCEPT !.hp[q] = HeapPop(W.thr, q, W.hp[q])]
              IN IF W.thr[min].status = TOBE_REMOVED
                 THEN dequeue_thread(W1, q)
                 ELSE [W |-> W1, ret |-> min]
    ELSE LET r == W.rg[q]
         IN IF r.head = r.tail
            THEN [W |-> W, ret |-> NULLT]
            ELSE LET pos == r.head
                     hd == IF r.head + 1 = MAX_QUEUE THEN 0 ELSE r.head + 1
                     W1 == [W EXCEPT !.rg[q] = [r EXCEPT !.head = hd,
                                                         !.size = U64(r.size - 1)]]
                     t == r.threads[pos]
                 IN IF W.thr[t].status = TOBE_REMOVED
                    THEN dequeue_thread(W1, q)
                    ELSE [W |-> W1, ret |-> t]

\* ------------------------------------------------------------ remove
\* what the read of queue->type through the NULL queue pointer can give
\* (lines 535, 570, 604): a trap, or any value found at that address
NullReads == {"fault", "arrival", "waiting", "sleeping", "other"}
NullReadQueue(n) ==
    IF n = "arrival" THEN ARRIVAL_QUEUE
    ELSE IF n = "waiting" THEN WAITING_QUEUE
    ELSE IF n = "sleeping" THEN SLEEPING_QUEUE
    ELSE NOQ

\* first index from i up to tail holding t, or tail (lines 542-548)
RECURSIVE RingFind(_, _, _)
RingFind(r, i, t) ==
    IF i = r.tail THEN i
    ELSE IF r.threads[i] = t THEN i
    ELSE RingFind(r, (i + 1) % MAX_QUEUE, t)

\* remove_thread(thread): [W, ret, out]; out is "ok", "fault" (trap on the
\* NULL queue pointer) or "hang" (the shift loop at 554-560 never advances i)
remove_thread(W, t, nullread) ==
    LET type == W.thr[t].q_type
    IN IF type \in HeapQueues
       THEN IF Len(W.hp[type]) < 1
            THEN [W |-> W, ret |-> NULLT, out |-> "ok"]
            ELSE \* `if (thread = queue->threads[i])` assigns: it is true at i = 0
                 \* and thread becomes threads[0]; target_index is 0
                 [W |-> [W EXCEPT !.hp[type] = HeapPop(W.thr, type, W.hp[type])],
                  ret |-> W.hp[type][1], out |-> "ok"]
       ELSE IF nullread = "fault"
            THEN [W |-> W, ret |-> NULLT, out |-> "fault"]
            ELSE IF NullReadQueue(nullread) # NOQ
                 THEN LET rq == NullReadQueue(nullread)
                          r == W.rg[rq]
                          i == RingFind(r, r.head, t)
                          tl == IF r.tail = 0 THEN MAX_QUEUE - 1 ELSE r.tail - 1
                      IN IF r.head = r.tail \/ i = r.tail
                         THEN [W |-> W, ret |-> NULLT, out |-> "ok"]
                         ELSE IF (i + 1) % MAX_QUEUE = r.tail
                              THEN [W |-> [W EXCEPT !.rg[rq] =
                                              [r EXCEPT !.tail = tl,
                                                        !.size = U64(r.size - 1)]],
                                    ret |-> t, out |-> "ok"]
                              ELSE [W |-> [W EXCEPT !.rg[rq].threads[i] =
                                              r.threads[(i + 1) % MAX_QUEUE]],
                                    ret |-> NULLT, out |-> "hang"]
                 ELSE [W |-> W, ret |-> NULLT, out |-> "ok"]

\* -------------------------------------------------------- dispatcher
\* scheduler->run_time: zeroed by rt_scheduler_init, never written again
sched_run_time == 0

\* a billing that counts from the last exit instead of the last entry
update_exit_FromExit(W, c, time) ==
    [W EXCEPT !.thr[c].run_time = U64(W.thr[c].run_time + U64(time - W.thr[c].exit_time)),
              !.thr[c].exit_time = time]

\* billing done on entry to the dispatcher (spec 4.2 step 1)
update_exit(W, c, time) ==
    [W EXCEPT !.thr[c].run_time = U64(W.thr[c].run_time + U64(time - W.thr[c].start_time)),
              !.thr[c].exit_time = time]

\* stamp of the incoming thread (spec 4.2 step 5)
update_enter(W, n, time) == [W EXCEPT !.thr[n].start_time = time]

\* check_deadlines(t): 1 when the deadline was missed
check_deadlines(W, t) == IF W.thr[t].exit_time > W.thr[t].deadline THEN 1 ELSE 0

\* update_periodic counting the next deadline from the old one instead of
\* from the current time
update_periodic_FromDeadline(W, t, time) ==
    IF W.thr[t].type = PERIODIC
    THEN [W EXCEPT !.thr[t].deadline = U64(W.thr[t].deadline + W.thr[t].period),
                   !.thr[t].run_time = 0]
    ELSE W

\* update_periodic(t)
update_periodic(W, t, time) ==
    IF W.thr[t].type = PERIODIC
    THEN [W EXCEPT !.thr[t].deadline = U64(time + W.thr[t].period),
                   !.thr[t].run_time = 0]
    ELSE W

\* set_timer that always arms the timer with QUANTUM
set_timer_AlwaysQuantum(W, t, end_time, slack, time) ==
    [apic |-> QUANTUM,
     tsc |-> [start_time |-> time, set_time |-> QUANTUM, end_time |-> end_time]]

\* set_timer that arms the budget of the thread and ignores the pending queue
set_timer_BudgetOnly(W, t, end_time, slack, time) ==
    [apic |-> IF t = NULLT THEN QUANTUM
              ELSE IF W.thr[t].type = PERIODIC
              THEN U64(U64(W.thr[t].slice - W.thr[t].run_time) + slack)
              ELSE IF W.thr[t].type = SPORADIC
              THEN U64(U64(W.thr[t].work - W.thr[t].run_time) + slack)
              ELSE QUANTUM,
     tsc |-> [start_time |-> time, set_time |-> QUANTUM, end_time |-> end_time]]

\* set_timer(scheduler, current_thread, end_time, slack): the value written
\* to the one-shot timer and the new scheduler->tsc
set_timer(W, t, end_time, slack, time) ==
    LET pend == W.hp[PENDING_QUEUE]
        gap == U64(W.thr[pend[1]].deadline - end_time)
        T == W.thr[t]
        w == IF Len(pend) > 0 /\ t # NULLT
             THEN IF T.type = PERIODIC
                  THEN [apic |-> umin(gap, U64(U64(T.slice - T.run_time) + slack)),
                        set |-> umin(gap, U64(T.slice - T.run_time))]
                  ELSE IF T.type = SPORADIC
                  THEN [apic |-> umin(gap, U64(U64(T.work - T.run_time) + slack)),
                        set |-> umin(gap, U64(U64(T.work - T.run_time) + slack))]
                  ELSE [apic |-> umin(gap, QUANTUM), set |-> umin(gap, QUANTUM)]
             ELSE IF Len(pend) = 0 /\ t # NULLT
             THEN IF T.type = PERIODIC
                  THEN [apic |-> U64(U64(T.slice - T.run_time) + slack),
                        set |-> U64(U64(T.slice - T.run_time) + slack)]
                  ELSE IF T.type = SPORADIC
                  THEN [apic |-> U64(U64(T.work - T.run_time) + slack),
                        set |-> U64(U64(T.work - T.run_time) + slack)]
                  ELSE [apic |-> QUANTUM, set |-> QUANTUM]
             ELSE [apic |-> QUANTUM, set |-> QUANTUM]
    IN [apic |-> w.apic,
        tsc |-> [start_time |-> time, set_time |-> w.set, end_time |-> end_time]]

\* a release drain that also takes a root whose deadline is end_time
RECURSIVE ReleaseDrain_AtDeadline(_, _, _, _)
ReleaseDrain_AtDeadline(W, end_time, time, rel) ==
    IF Len(W.hp[PENDING_QUEUE]) > 0
       /\ W.thr[W.hp[PENDING_QUEUE][1]].deadline <= end_time
    THEN LET d == dequeue_thread(W, PENDING_QUEUE)
         IN IF d.ret = NULLT
            THEN ReleaseDrain_AtDeadline(d.W, end_time, time, rel)
            ELSE ReleaseDrain_AtDeadline(
                   enqueue_thread(update_periodic(d.W, d.ret, time), RUNNABLE_QUEUE, d.ret),
                   end_time, time, rel \cup {d.ret})
    ELSE [W |-> W, rel |-> rel]

\* the release drain, lines 995-1012: [W, rel]; rel collects the descriptors
\* handed to update_periodic
RECURSIVE ReleaseDrain(_, _, _, _)
ReleaseDrain(W, end_time, time, rel) ==
    IF Len(W.hp[PENDING_QUEUE]) > 0
       /\ W.thr[W.hp[PENDING_QUEUE][1]].deadline < end_time
    THEN LET d == dequeue_thread(W, PENDING_QUEUE)
         IN IF d.ret = NULLT
            THEN ReleaseDrain(d.W, end_time, time, rel)
            ELSE ReleaseDrain(
                   enqueue_thread(update_periodic(d.W, d.ret, time), RUNNABLE_QUEUE, d.ret),
                   end_time, time, rel \cup {d.ret})
    ELSE [W |-> W, rel |-> rel]

\* "take the next thread from runnable, else from aperiodic; panic when
\* there is none": the tail shared by lines 1019-1034, 1041-1054, 1081-1094
PickNext(W) ==
    LET r == IF Len(W.hp[RUNNABLE_QUEUE]) > 0
             THEN dequeue_thread(W, RUNNABLE_QUEUE)
             ELSE [W |-> W, ret |-> NULLT]
    IN IF r.ret # NULLT THEN r ELSE dequeue_thread(r.W, APERIODIC_QUEUE)

\* PreemptOrKeep that preempts whenever runnable is not empty, whatever the
\* deadlines
PreemptOrKeep_Always(W, c) ==
    IF Len(W.hp[RUNNABLE_QUEUE]) > 0 /\ dequeue_thread(W, RUNNABLE_QUEUE).ret # NULLT
    THEN [W |-> enqueue_thread(dequeue_thread(W, RUNNABLE_QUEUE).W, RUNNABLE_QUEUE, c),
          ret |-> dequeue_thread(W, RUNNABLE_QUEUE).ret]
    ELSE [W |-> W, ret |-> c]

\* PreemptOrKeep that puts the current thread on runnable on both paths
PreemptOrKeep_Requeue(W, c) ==
    IF Len(W.hp[RUNNABLE_QUEUE]) > 0
       /\ W.thr[c].deadline > W.thr[W.hp[RUNNABLE_QUEUE][1]].deadline
    THEN [W |-> enqueue_thread(dequeue_thread(W, RUNNABLE_QUEUE).W, RUNNABLE_QUEUE, c),
          ret |-> dequeue_thread(W, RUNNABLE_QUEUE).ret]
    ELSE [W |-> enqueue_thread(W, RUNNABLE_QUEUE, c), ret |-> c]

\* "preempt when the runnable root has the earlier deadline, else keep the
\* current thread": lines 1056-1069 and 1096-1109
PreemptOrKeep(W, c) ==
    LET run == W.hp[RUNNABLE_QUEUE]
        r == IF Len(run) > 0 /\ W.thr[c].deadline > W.thr[run[1]].deadline
             THEN dequeue_thread(W, RUNNABLE_QUEUE)
             ELSE [W |-> W, ret |-> NULLT]
    IN IF r.ret # NULLT
       THEN [W |-> enqueue_thread(r.W, RUNNABLE_QUEUE, c), ret |-> r.ret]
       ELSE [W |-> r.W, ret |-> c]

\* ClassBranch that puts a periodic thread which used up its slice and is not
\* re-released on runnable instead of pending
ClassBranch_SliceDoneRunnable(W, c, time) ==
    IF W.thr[c].type = APERIODIC
    THEN PickNext(enqueue_thread([W EXCEPT !.thr[c].priority = W.thr[c].run_time],
                                 APERIODIC_QUEUE, c))
    ELSE IF W.thr[c].type = SPORADIC
    THEN IF W.thr[c].run_time >= W.thr[c].work
         THEN PickNext(W)
         ELSE PreemptOrKeep(W, c)
    ELSE IF W.thr[c].run_time >= W.thr[c].slice
         THEN IF check_deadlines(W, c) = 1
              THEN PickNext(enqueue_thread(update_periodic(W, c, time),
                                           RUNNABLE_QUEUE, c))
              ELSE PickNext(enqueue_thread(W, RUNNABLE_QUEUE, c))
         ELSE PreemptOrKeep(W, c)

\* ClassBranch that puts a sporadic thread whose work is done back on runnable
ClassBranch_SporadicRequeue(W, c, time) ==
    IF W.thr[c].type = APERIODIC
    THEN PickNext(enqueue_thread([W EXCEPT !.thr[c].priority = W.thr[c].run_time],
                                 APERIODIC_QUEUE, c))
    ELSE IF W.thr[c].type = SPORADIC
    THEN IF W.thr[c].run_time >= W.thr[c].work
         THEN PickNext(enqueue_thread(W, RUNNABLE_QUEUE, c))
         ELSE PreemptOrKeep(W, c)
    ELSE IF W.thr[c].run_time >= W.thr[c].slice
         THEN IF check_deadlines(W, c) = 1
              THEN PickNext(enqueue_thread(update_periodic(W, c, time),
                                           RUNNABLE_QUEUE, c))
              ELSE PickNext(enqueue_thread(W, PENDING_QUEUE, c))
         ELSE PreemptOrKeep(W, c)

\* lines 1014-1112, the branch on the class of the current thread c, on the
\* world W left by the release drain: [W, ret]; ret = NULLT is the call of panic
ClassBranch(W, c, time) ==
    IF W.thr[c].type = APERIODIC
    THEN PickNext(enqueue_thread([W EXCEPT !.thr[c].priority = W.thr[c].run_time],
                                 APERIODIC_QUEUE, c))
    ELSE IF W.thr[c].type = SPORADIC
    THEN IF W.thr[c].run_time >= W.thr[c].work
         THEN PickNext(W)
         ELSE PreemptOrKeep(W, c)
    ELSE IF W.thr[c].run_time >= W.thr[c].slice
         THEN IF check_deadlines(W, c) = 1
              THEN PickNext(enqueue_thread(update_periodic(W, c, time),
                                           RUNNABLE_QUEUE, c))
              ELSE PickNext(enqueue_thread(W, PENDING_QUEUE, c))
         ELSE PreemptOrKeep(W, c)

\* the descriptors handed to update_periodic by one call: those of the drain
\* dr, and c when it finished its slice and check_deadlines gave 1
Released(dr, c) ==
    IF dr.W.thr[c].type = PERIODIC /\ dr.W.thr[c].run_time >= dr.W.thr[c].slice
       /\ check_deadlines(dr.W, c) = 1
    THEN dr.rel \cup {c} ELSE dr.rel

\* lines 1113-1114: set_timer on the selected thread, and the return
TimerAndReturn(sel, rel, end_time, time) ==
    [W |-> sel.W, ret |-> sel.ret, rel |-> rel,
     apic |-> set_timer(sel.W, sel.ret, end_time, 0, time).apic,
     tsc |-> set_timer(sel.W, sel.ret, end_time, 0, time).tsc]

\* the call after the release drain dr
AfterDrain(dr, c, end_time, time) ==
    TimerAndReturn(ClassBranch(dr.W, c, time), Released(dr, c), end_time, time)

\* rt_need_resched(): [W, ret, rel, apic, tsc]; end_time is
\* scheduler->run_time + cur_time(), slack is 0
rt_need_resched(W0, c, time) ==
    AfterDrain(ReleaseDrain(W0, U64(sched_run_time + time), time, {}),
               c, U64(sched_run_time + time), time)

\* --------------------------------------------------------- admission
\* get_per_util: the loop over one queue array
RECURSIVE PerUtilLoop(_, _, _)
PerUtilLoop(T, h, i) ==
    IF i > Len(h) THEN 0
    ELSE (IF T[h[i]].type = PERIODIC
          THEN (T[h[i]].slice * 100000) \div T[h[i]].period ELSE 0)
         + PerUtilLoop(T, h, i + 1)

\* get_per_util without the loop over pending
get_per_util_RunnableOnly(W) == U64(PerUtilLoop(W.thr, W.hp[RUNNABLE_QUEUE], 1))

\* get_per_util(scheduler): runnable, then pending
get_per_util(W) ==
    U64(PerUtilLoop(W.thr, W.hp[RUNNABLE_QUEUE], 1)
        + PerUtilLoop(W.thr, W.hp[PENDING_QUEUE], 1))

\* get_spor_util: the divisor deadline - cur_time() of entry i
SporDivisor(T, h, i, time) == U64(T[h[i]].deadline - time)

RECURSIVE SporUtilLoop(_, _, _, _)
SporUtilLoop(T, h, i, time) ==
    IF i > Len(h) THEN 0
    ELSE (IF T[h[i]].type = SPORADIC
          THEN (T[h[i]].work * 100000) \div SporDivisor(T, h, i, time) ELSE 0)
         + SporUtilLoop(T, h, i + 1, time)

get_spor_util(W, time) == U64(SporUtilLoop(W.thr, W.hp[RUNNABLE_QUEUE], 1, time))

\* the division at line 1263 traps when a sporadic entry has deadline = now
SporDivTraps(W, time) ==
    \E i \in 1..Len(W.hp[RUNNABLE_QUEUE]) :
        /\ W.thr[W.hp[RUNNABLE_QUEUE][i]].type = SPORADIC
        /\ SporDivisor(W.thr, W.hp[RUNNABLE_QUEUE], i, time) = 0

\* rt_admit(scheduler, thread): [ret, out]; out = "fault" is the divide trap
rt_admit(W, t, time) ==
    IF W.thr[t].type = PERIODIC
    THEN IF get_per_util(W) + (W.thr[t].slice * 100000) \div W.thr[t].period
            > PERIODIC_UTIL
         THEN [ret |-> 0, out |-> "ok"]
         ELSE [ret |-> 1, out |-> "ok"]
    ELSE IF W.thr[t].type = SPORADIC
    THEN IF SporDivTraps(W, time)
         THEN [ret |-> 0, out |-> "fault"]
         ELSE IF get_spor_util(W, time) > SPORADIC_UTIL
              THEN [ret |-> 0, out |-> "ok"]
              ELSE [ret |-> 1, out |-> "ok"]
    ELSE [ret |-> 1, out |-> "ok"]

\* ------------------------------------------------------------- state
World == [thr |-> thr, hp |-> hp, rg |-> rg]

InHeap(h, q, t) == \E i \in 1..Len(h[q]) : h[q][i] = t
\* the live slots of a ring: size slots starting at head
RingSlots(r) == {(r.head + k) % MAX_QUEUE : k \in 0..(umin(r.size, MAX_QUEUE) - 1)}
InRing(g, q, t) == \E i \in RingSlots(g[q]) : g[q].threads[i] = t
\* t is on none of the six queues other than exited
Detached(h, g, t) ==
    /\ \A q \in HeapQueues : ~InHeap(h, q, t)
    /\ \A q \in RingQueues \ {EXITED_QUEUE} : ~InRing(g, q, t)

MainThread == 1
BootThread == 2

BlankThread ==
    [type |-> APERIODIC, q_type |-> NOQ, status |-> ARRIVED, period |-> 0,
     slice |-> 0, work |-> 0, priority |-> 0, start_time |-> 0, run_time |-> 0,
     deadline |-> 0, exit_time |-> 0]

EmptyRing == [head |-> 0, tail |-> 0, size |-> 0,
              threads |-> [i \in 0..(MAX_QUEUE - 1) |-> NULLT]]

\* what the thread layer asks for: class, constraints, relative deadline
Profiles ==
    { [type |-> PERIODIC, period |-> 2, slice |-> 1, work |-> 0, priority |-> 0, rel |-> 0],
      [type |-> PERIODIC, period |-> 4, slice |-> 1, work |-> 0, priority |-> 0, rel |-> 0],
      [type |-> SPORADIC, period |-> 0, slice |-> 0, work |-> 1, priority |-> 0, rel |-> 2],
      [type |-> APERIODIC, period |-> 0, slice |-> 0, work |-> 0, priority |-> 1, rel |-> 0] }

\* rt_scheduler_init(main_thread): every queue empty, main_thread ADMITTED
\* and on aperiodic.  The context that is executing until the first
\* reschedule is BootThread, a descriptor with no work left: the dispatcher
\* never queues it again.
rt_scheduler_init ==
    LET T0 == [t \in Threads |->
                 IF t = MainThread THEN [BlankThread EXCEPT !.status = ADMITTED]
                 ELSE IF t = BootThread
                 THEN [BlankThread EXCEPT !.status = ADMITTED, !.type = SPORADIC]
                 ELSE BlankThread]
        W0 == [thr |-> T0, hp |-> [q \in HeapQueues |-> <<>>],
               rg |-> [q \in RingQueues |-> EmptyRing]]
    IN enqueue_thread(W0, APERIODIC_QUEUE, MainThread)

Init ==
    /\ thr = rt_scheduler_init.thr
    /\ hp = rt_scheduler_init.hp
    /\ rg = rt_scheduler_init.rg
    /\ allocated = {MainThread, BootThread}
    /\ cur = BootThread
    /\ now = 0
    /\ tsc = [start_time |-> 0, set_time |-> 0, end_time |-> 0]
    /\ apic = 0
    /\ sys = "RUN"
    /\ hk = [pc |-> "loop", d |-> NULLT]
    /\ parked = {}
    /\ nexit = 0
    /\ ev = NoEvent
    /\ out = NoOut
    /\ fifo = NoFifo

SetWorld(W) == thr' = W.thr /\ hp' = W.hp /\ rg' = W.rg

\* ----------------------------------------------------------- actions
\* a creation that leaves the deadline of every class at 0
rt_thread_init_NoDeadline(p, time) ==
    [BlankThread EXCEPT
        !.type = p.type, !.status = ARRIVED,
        !.period = p.period, !.slice = p.slice, !.work = p.work,
        !.priority = p.priority,
        !.start_time = 0, !.run_time = 0, !.deadline = 0]

\* rt_thread_init(type, constraints, deadline, thread)
rt_thread_init(p, time) ==
    [BlankThread EXCEPT
        !.type = p.type, !.status = ARRIVED,
        !.period = p.period, !.slice = p.slice, !.work = p.work,
        !.priority = p.priority,
        !.start_time = 0, !.run_time = 0,
        !.deadline = IF p.type = PERIODIC THEN U64(time + p.period)
                     ELSE IF p.type = SPORADIC THEN U64(time + p.rel)
                     ELSE 0]

\* nk_thread_start as the caller in nk_rt_test uses it: rt_thread_init, then
\* enqueue_thread(arrival, t)
Spawn ==
    /\ sys = "RUN"
    /\ allocated # Threads
    /\ Cardinality(allocated) < 2 + MaxSpawn
    /\ \E p \in Profiles :
         LET t == CHOOSE x \in Threads \ allocated :
                     \A y \in Threads \ allocated : x <= y
         IN /\ SetWorld(enqueue_thread([World EXCEPT !.thr[t] = rt_thread_init(p, now)],
                                       ARRIVAL_QUEUE, t))
            /\ allocated' = allocated \cup {t}
            /\ ev' = [NoEvent EXCEPT !.op = "spawn", !.t = t, !.q = ARRIVAL_QUEUE]
    /\ UNCHANGED <<cur, now, tsc, apic, sys, hk, parked, nexit, out, fifo>>

\* the queue an accepted descriptor joins (spec 4.6)
ParkQueue(T, t, time) ==
    IF T[t].type = APERIODIC THEN APERIODIC_QUEUE
    ELSE IF T[t].type = PERIODIC /\ T[t].deadline > time THEN PENDING_QUEUE
    ELSE RUNNABLE_QUEUE

\* admission of a descriptor that has left arrival (spec 4.6): rt_admit, and on
\* acceptance status <- ADMITTED and enqueue_thread on the queue of its class
AdmitPark ==
    /\ sys = "RUN"
    /\ \E t \in allocated \ (parked \cup {cur, MainThread, BootThread}) :
         /\ Detached(hp, rg, t)
         /\ LET a == rt_admit(World, t, now)
                q == ParkQueue(thr, t, now)
            IN IF a.out = "fault"
               THEN /\ sys' = "FAULT"
                    /\ UNCHANGED <<thr, hp, rg, parked>>
                    /\ ev' = [NoEvent EXCEPT !.op = "admit", !.t = t, !.ret = 2]
               ELSE IF a.ret = 1
               THEN /\ SetWorld(enqueue_thread([World EXCEPT !.thr[t].status = ADMITTED], q, t))
                    /\ parked' = parked \cup {t}
                    /\ sys' = sys
                    /\ ev' = [NoEvent EXCEPT !.op = "admit", !.t = t, !.ret = 1, !.q = q]
               ELSE /\ UNCHANGED <<thr, hp, rg, parked, sys>>
                    /\ ev' = [NoEvent EXCEPT !.op = "admit", !.t = t, !.ret = 0]
    /\ UNCHANGED <<allocated, cur, now, tsc, apic, hk, nexit, out, fifo>>

\* rt_thread_exit(thread)
rt_thread_exit(W, t) ==
    enqueue_thread([W EXCEPT !.thr[t].status = TOBE_REMOVED], EXITED_QUEUE, t)

\* the running thread ends itself: rt_thread_exit(cur)
Exit ==
    /\ sys = "RUN"
    /\ nexit < MaxExit
    /\ nexit' = nexit + 1
    /\ cur \notin {MainThread, BootThread}
    /\ thr[cur].status # TOBE_REMOVED
    /\ SetWorld(rt_thread_exit(World, cur))
    /\ ev' = [NoEvent EXCEPT !.op = "exit", !.t = cur, !.q = EXITED_QUEUE]
    /\ UNCHANGED <<allocated, cur, now, tsc, apic, sys, hk, parked, out, fifo>>

\* a reschedule event: billing, rt_need_resched, stamp of the next thread
Resched ==
    /\ sys = "RUN"
    /\ \E r \in {rt_need_resched(update_exit(World, cur, now), cur, now)} :
          IF r.ret = NULLT
          THEN /\ SetWorld(r.W)
               /\ sys' = "PANIC"
               /\ UNCHANGED <<cur, tsc, apic>>
               /\ ev' = [NoEvent EXCEPT !.op = "resched", !.prev = cur, !.rel = r.rel]
          ELSE /\ SetWorld(update_enter(r.W, r.ret, now))
               /\ cur' = r.ret
               /\ tsc' = r.tsc
               /\ apic' = r.apic
               /\ sys' = sys
               /\ ev' = [NoEvent EXCEPT !.op = "resched", !.prev = cur,
                                        !.ret = r.ret, !.rel = r.rel]
    /\ UNCHANGED <<allocated, now, hk, parked, nexit, out, fifo>>

\* the housekeeper queueing every descriptor it took from arrival, whatever
\* rt_admit answered
sched_sim_admit_ParkAlways(W, new, check) ==
    IF new = NULLT THEN W
    ELSE enqueue_thread([W EXCEPT !.thr[new].status = ADMITTED],
                        IF W.thr[new].type = APERIODIC THEN APERIODIC_QUEUE
                        ELSE RUNNABLE_QUEUE, new)

\* sched_sim, lines 1307-1314: what the housekeeper does with the descriptor
\* new it took from arrival and rt_admit's answer check.  On acceptance the
\* scheduler is copied into the simulator and the copy freed again
\* (copy_threads_sim, free_threads_sim); on rejection nothing is done.  Neither
\* touches the scheduler's queues or the descriptor.
sched_sim_admit(W, new, check) == W

\* sched_sim, lines 1304-1317: one turn of the outer loop up to the inner
\* `while (d != NULL)`: take one arrival, run admission on it, then take one
\* descriptor from exited
HkStep ==
    /\ sys = "RUN"
    /\ hk.pc = "loop"
    /\ \E n \in {dequeue_thread(World, ARRIVAL_QUEUE)} :
       \E a \in {IF n.ret = NULLT THEN [ret |-> NULLT, out |-> "ok"]
                 ELSE rt_admit(n.W, n.ret, now)} :
          IF a.out = "fault"
          THEN /\ SetWorld(n.W)
               /\ sys' = "FAULT"
               /\ hk' = hk
               /\ ev' = [NoEvent EXCEPT !.op = "hk", !.t = n.ret, !.ret = 2]
          ELSE \E d \in {dequeue_thread(sched_sim_admit(n.W, n.ret, a.ret), EXITED_QUEUE)} :
               /\ SetWorld(d.W)
               /\ sys' = sys
               /\ hk' = IF d.ret = NULLT THEN hk ELSE [pc |-> "remove", d |-> d.ret]
               /\ ev' = [NoEvent EXCEPT !.op = "hk", !.t = n.ret, !.ret = a.ret]
    /\ UNCHANGED <<allocated, cur, now, tsc, apic, parked, nexit, out, fifo>>

\* sched_sim, lines 1318-1325: one turn of `while (d != NULL)`; d is never
\* reassigned and `d->status == REMOVED;` has no effect
HkRemove ==
    /\ sys = "RUN"
    /\ hk.pc = "remove"
    /\ \E n \in NullReads :
         LET r == remove_thread(World, hk.d, n)
         IN /\ SetWorld(r.W)
            /\ sys' = IF r.out = "fault" THEN "FAULT" ELSE sys
            /\ hk' = IF r.out = "hang" THEN [hk EXCEPT !.pc = "hang"] ELSE hk
            /\ ev' = [NoEvent EXCEPT !.op = "hk_remove", !.t = hk.d, !.ret = r.ret]
    /\ UNCHANGED <<allocated, cur, now, tsc, apic, parked, nexit, out, fifo>>

Tick ==
    /\ sys = "RUN"
    /\ now < MaxTime
    /\ now' = now + 1
    /\ ev' = [NoEvent EXCEPT !.op = "tick"]
    /\ UNCHANGED <<thr, allocated, hp, rg, cur, tsc, apic, sys, hk, parked, nexit, out, fifo>>

Next ==
    \/ Spawn
    \/ AdmitPark
    \/ Exit
    \/ Resched
    \/ HkStep
    \/ Tick

Spec == Init /\ [][Next]_vars

\* ------------------------------------------------- the queues alone
\* A second specification drives the heap queues directly with the exposed
\* enqueue, dequeue and remove operations and the dispatcher, over a pool of
\* descriptors whose keys are drawn from 0..MaxKey, at the time MaxKey.
\* who is of which class, for the three mixes the pool is drawn from
ClassMixes ==
    { [t \in Threads |-> PERIODIC],
      [t \in Threads |-> APERIODIC],
      [t \in Threads |-> IF t <= 2 THEN APERIODIC
                         ELSE IF t = 3 THEN SPORADIC ELSE PERIODIC] }

\* keys rise with the descriptor number and repeat, so that equal and
\* distinct keys both occur; the order of the enqueues is free
HeapKeyOf(t) == umin(MaxKey, (t - 1) \div 2)

InitHeap ==
    /\ \E c \in ClassMixes, tbr \in BOOLEAN :
         thr = [t \in Threads |->
                  [BlankThread EXCEPT
                     !.type = c[t],
                     !.status = IF tbr /\ t = NumThreads THEN TOBE_REMOVED ELSE ADMITTED,
                     !.period = IF c[t] = PERIODIC THEN 1 ELSE 0,
                     !.slice = IF c[t] = PERIODIC THEN 1 ELSE 0,
                     !.work = IF c[t] = SPORADIC THEN 2 ELSE 0,
                     !.priority = IF c[t] = APERIODIC THEN HeapKeyOf(t) ELSE 0,
                     !.deadline = IF c[t] = APERIODIC THEN 0 ELSE HeapKeyOf(t)]]
    /\ hp = [q \in HeapQueues |-> <<>>]
    /\ rg = [q \in RingQueues |-> EmptyRing]
    /\ allocated = Threads
    /\ cur = 1
    /\ now = MaxKey
    /\ tsc = [start_time |-> 0, set_time |-> 0, end_time |-> 0]
    /\ apic = 0
    /\ sys = "RUN"
    /\ hk = [pc |-> "loop", d |-> NULLT]
    /\ parked = Threads
    /\ nexit = 0
    /\ ev = NoEvent
    /\ out = NoOut
    /\ fifo = NoFifo

\* enqueue_thread(queue, t) for a descriptor that has been on no queue yet;
\* later moves between the queues are the dispatcher's
HEnqueue ==
    /\ sys = "RUN"
    /\ \E q \in HeapQueues, t \in Threads \ {cur} :
         /\ Detached(hp, rg, t)
         /\ thr[t].q_type = NOQ
         /\ (q = APERIODIC_QUEUE) <=> (thr[t].type = APERIODIC)
         /\ SetWorld(enqueue_thread(World, q, t))
         /\ ev' = [NoEvent EXCEPT !.op = "enqueue", !.t = t, !.q = q]
    /\ UNCHANGED <<allocated, cur, now, tsc, apic, sys, hk, parked, nexit, out, fifo>>

\* dequeue_thread(queue)
HDequeue ==
    /\ sys = "RUN"
    /\ \E q \in HeapQueues :
         LET d == dequeue_thread(World, q)
         IN /\ SetWorld(d.W)
            /\ ev' = [NoEvent EXCEPT !.op = "dequeue", !.ret = d.ret, !.q = q]
    /\ UNCHANGED <<allocated, cur, now, tsc, apic, sys, hk, parked, nexit, out, fifo>>

\* remove_thread(t) for a descriptor parked on a heap queue
HRemove ==
    /\ sys = "RUN"
    /\ \E t \in Threads :
         /\ \E q \in HeapQueues : InHeap(hp, q, t)
         /\ LET r == remove_thread(World, t, "other")
            IN /\ SetWorld(r.W)
               /\ ev' = [NoEvent EXCEPT !.op = "remove", !.t = t, !.ret = r.ret,
                                        !.q = thr[t].q_type]
    /\ UNCHANGED <<allocated, cur, now, tsc, apic, sys, hk, parked, nexit, out, fifo>>

NextHeap ==
    \/ HEnqueue
    \/ HDequeue
    \/ HRemove
    \/ Resched

SpecHeap == InitHeap /\ [][NextHeap]_vars

\* ------------------------------------------- a heap queue as a sorter
\* A third specification loads a heap queue with descriptors in any order and
\* then drains it, keeping in out[q] what the dequeues returned.  The keys of
\* the descriptors are any map into 0..MaxKey; none is TOBE_REMOVED.  The
\* descriptors are of one class, which names the queue: aperiodic for
\* APERIODIC, runnable for SPORADIC, pending for PERIODIC.
SortQueue(T, t) ==
    IF T[t].type = APERIODIC THEN APERIODIC_QUEUE
    ELSE IF T[t].type = SPORADIC THEN RUNNABLE_QUEUE
    ELSE PENDING_QUEUE

InitSort ==
    /\ \E c \in {APERIODIC, SPORADIC, PERIODIC}, k \in [Threads -> 0..MaxKey] :
         thr = [t \in Threads |->
                  [BlankThread EXCEPT
                     !.type = c,
                     !.status = ADMITTED,
                     !.period = IF c = PERIODIC THEN 1 ELSE 0,
                     !.slice = IF c = PERIODIC THEN 1 ELSE 0,
                     !.work = IF c = SPORADIC THEN 1 ELSE 0,
                     !.priority = IF c = APERIODIC THEN k[t] ELSE 0,
                     !.deadline = IF c = APERIODIC THEN 0 ELSE k[t]]]
    /\ hp = [q \in HeapQueues |-> <<>>]
    /\ rg = [q \in RingQueues |-> EmptyRing]
    /\ allocated = Threads
    /\ cur = NULLT
    /\ now = 0
    /\ tsc = [start_time |-> 0, set_time |-> 0, end_time |-> 0]
    /\ apic = 0
    /\ sys = "RUN"
    /\ hk = [pc |-> "loop", d |-> NULLT]
    /\ parked = {}
    /\ nexit = 0
    /\ ev = NoEvent
    /\ out = NoOut
    /\ fifo = NoFifo

\* enqueue_thread(queue, t) while the queue is being loaded: t has been on no
\* queue, the queue is below its capacity and nothing was dequeued from it
SEnqueue ==
    /\ \E q \in HeapQueues, t \in Threads :
         /\ thr[t].q_type = NOQ
         /\ q = SortQueue(thr, t)
         /\ out[q] = <<>>
         /\ Len(hp[q]) < MAX_QUEUE
         /\ SetWorld(enqueue_thread(World, q, t))
         /\ ev' = [NoEvent EXCEPT !.op = "enqueue", !.t = t, !.q = q]
    /\ UNCHANGED <<allocated, cur, now, tsc, apic, sys, hk, parked, nexit, out, fifo>>

\* dequeue_thread(queue) on a queue that holds something
SDequeue ==
    /\ \E q \in HeapQueues :
         /\ Len(hp[q]) > 0
         /\ \E d \in {dequeue_thread(World, q)} :
              /\ SetWorld(d.W)
              /\ out' = [out EXCEPT ![q] = Append(out[q], d.ret)]
              /\ ev' = [NoEvent EXCEPT !.op = "dequeue", !.ret = d.ret, !.q = q]
    /\ UNCHANGED <<allocated, cur, now, tsc, apic, sys, hk, parked, nexit, fifo>>

NextSort ==
    \/ SEnqueue
    \/ SDequeue

SpecSort == InitSort /\ [][NextSort]_vars

\* ---------------------------------------------------- the ring queues
\* A fourth specification drives the ring queues with enqueue_thread,
\* dequeue_thread and rt_thread_exit, keeping in fifo[q] the descriptors ring q
\* accepted, oldest first, less those a dequeue has passed.
InitRing ==
    /\ thr = [t \in Threads |-> BlankThread]
    /\ hp = [q \in HeapQueues |-> <<>>]
    /\ rg = [q \in RingQueues |-> EmptyRing]
    /\ allocated = Threads
    /\ cur = NULLT
    /\ now = 0
    /\ tsc = [start_time |-> 0, set_time |-> 0, end_time |-> 0]
    /\ apic = 0
    /\ sys = "RUN"
    /\ hk = [pc |-> "loop", d |-> NULLT]
    /\ parked = {}
    /\ nexit = 0
    /\ ev = NoEvent
    /\ out = NoOut
    /\ fifo = NoFifo

\* what a ring that accepts t remembers: enqueue_thread stores t unless the
\* ring holds MAX_QUEUE entries
FifoPut(f, g, q, t) ==
    IF g[q].size = MAX_QUEUE THEN f ELSE [f EXCEPT ![q] = Append(f[q], t)]

\* the oldest entry of s that is not TOBE_REMOVED, and what is behind it
RECURSIVE FirstLive(_, _)
FirstLive(T, s) ==
    IF s = <<>> THEN NULLT
    ELSE IF T[Head(s)].status # TOBE_REMOVED THEN Head(s)
    ELSE FirstLive(T, Tail(s))
RECURSIVE AfterFirstLive(_, _)
AfterFirstLive(T, s) ==
    IF s = <<>> THEN <<>>
    ELSE IF T[Head(s)].status # TOBE_REMOVED THEN Tail(s)
    ELSE AfterFirstLive(T, Tail(s))

\* enqueue_thread(ring, t) for the lowest-numbered descriptor that is on none
\* of arrival, waiting and sleeping (the descriptors differ in nothing but
\* their status); one of these three rings is driven in a run, the one of the
\* first enqueue
REnqueue ==
    /\ \E q \in RingQueues \ {EXITED_QUEUE}, t \in Threads :
         /\ Detached(hp, rg, t)
         /\ \A u \in Threads : Detached(hp, rg, u) => t <= u
         /\ \A o \in RingQueues \ {q, EXITED_QUEUE} : rg[o] = EmptyRing
         /\ SetWorld(enqueue_thread(World, q, t))
         /\ fifo' = FifoPut(fifo, rg, q, t)
         /\ ev' = [NoEvent EXCEPT !.op = "enqueue", !.t = t, !.q = q]
    /\ UNCHANGED <<allocated, cur, now, tsc, apic, sys, hk, parked, nexit, out>>

\* dequeue_thread(ring)
RDequeue ==
    /\ \E q \in RingQueues :
       \E d \in {dequeue_thread(World, q)} :
         /\ SetWorld(d.W)
         /\ fifo' = [fifo EXCEPT ![q] = AfterFirstLive(thr, fifo[q])]
         /\ ev' = [NoEvent EXCEPT !.op = "dequeue", !.ret = d.ret, !.q = q]
    /\ UNCHANGED <<allocated, cur, now, tsc, apic, sys, hk, parked, nexit, out>>

\* rt_thread_exit(t): t becomes TOBE_REMOVED and is put on exited, wherever
\* else it is
RExit ==
    /\ nexit < MaxExit
    /\ nexit' = nexit + 1
    /\ \E t \in Threads :
         /\ thr[t].status # TOBE_REMOVED
         /\ SetWorld(rt_thread_exit(World, t))
         /\ fifo' = FifoPut(fifo, rg, EXITED_QUEUE, t)
         /\ ev' = [NoEvent EXCEPT !.op = "exit", !.t = t, !.q = EXITED_QUEUE]
    /\ UNCHANGED <<allocated, cur, now, tsc, apic, sys, hk, parked, out>>

NextRing ==
    \/ REnqueue
    \/ RDequeue
    \/ RExit

SpecRing == InitRing /\ [][NextRing]_vars

\* ------------------------------------------------ the aperiodic fallback
\* A fifth specification starts where rt_scheduler_init and the first
\* reschedule have left the CPU, main_thread running and every queue empty
\* (the boot context is gone and its descriptor number is free), with the
\* other descriptors just made APERIODIC by rt_thread_init.  They are
\* admitted, dispatched and end themselves in any order.
InitIdle ==
    /\ thr = [t \in Threads |->
                IF t = MainThread THEN [BlankThread EXCEPT !.status = ADMITTED,
                                                           !.q_type = APERIODIC_QUEUE]
                ELSE rt_thread_init([type |-> APERIODIC, period |-> 0, slice |-> 0,
                                     work |-> 0, priority |-> 1, rel |-> 0], 0)]
    /\ hp = [q \in HeapQueues |-> <<>>]
    /\ rg = [q \in RingQueues |-> EmptyRing]
    /\ allocated = Threads
    /\ cur = MainThread
    /\ now = 0
    /\ tsc = [start_time |-> 0, set_time |-> QUANTUM, end_time |-> 0]
    /\ apic = QUANTUM
    /\ sys = "RUN"
    /\ hk = [pc |-> "loop", d |-> NULLT]
    /\ parked = {}
    /\ nexit = 0
    /\ ev = NoEvent
    /\ out = NoOut
    /\ fifo = NoFifo

\* admission of a created descriptor (spec 4.6): rt_admit, status <- ADMITTED
\* and enqueue_thread on the queue of its class
IAdmit ==
    /\ sys = "RUN"
    /\ \E t \in allocated \ (parked \cup {cur, MainThread}) :
         /\ Detached(hp, rg, t)
         /\ rt_admit(World, t, now) = [ret |-> 1, out |-> "ok"]
         /\ SetWorld(enqueue_thread([World EXCEPT !.thr[t].status = ADMITTED],
                                    ParkQueue(thr, t, now), t))
         /\ parked' = parked \cup {t}
         /\ ev' = [NoEvent EXCEPT !.op = "admit", !.t = t, !.ret = 1,
                                  !.q = ParkQueue(thr, t, now)]
    /\ UNCHANGED <<allocated, cur, now, tsc, apic, sys, hk, nexit, out, fifo>>

\* the running thread, if it is not main_thread, ends itself
IExit ==
    /\ sys = "RUN"
    /\ cur # MainThread
    /\ thr[cur].status # TOBE_REMOVED
    /\ SetWorld(rt_thread_exit(World, cur))
    /\ nexit' = nexit + 1
    /\ ev' = [NoEvent EXCEPT !.op = "exit", !.t = cur, !.q = EXITED_QUEUE]
    /\ UNCHANGED <<allocated, cur, now, tsc, apic, sys, hk, parked, out, fifo>>

NextIdle ==
    \/ IAdmit
    \/ IExit
    \/ Resched

SpecIdle == InitIdle /\ [][NextIdle]_vars

\* ------------------------------------------------- all seven queues
\* A sixth specification applies enqueue_thread and dequeue_thread to each of
\* the seven queues, full ones included.  The descriptors have the keys
\* HeapKeyOf as deadline and as priority, and start with the queue tag and
\* the status an earlier stay on some queue has left them with.
InitFull ==
    /\ \E g \in HeapQueues \cup RingQueues \cup {NOQ}, st \in {ARRIVED, ADMITTED} :
         thr = [t \in Threads |-> [BlankThread EXCEPT !.priority = HeapKeyOf(t),
                                                      !.deadline = HeapKeyOf(t),
                                                      !.q_type = g,
                                                      !.status = st]]
    /\ hp = [q \in HeapQueues |-> <<>>]
    /\ rg = [q \in RingQueues |-> EmptyRing]
    /\ allocated = Threads
    /\ cur = NULLT
    /\ now = 0
    /\ tsc = [start_time |-> 0, set_time |-> 0, end_time |-> 0]
    /\ apic = 0
    /\ sys = "RUN"
    /\ hk = [pc |-> "loop", d |-> NULLT]
    /\ parked = {}
    /\ nexit = 0
    /\ ev = NoEvent
    /\ out = NoOut
    /\ fifo = NoFifo

\* t is on none of the seven queues
OnNoQueue(h, g, t) == Detached(h, g, t) /\ ~InRing(g, EXITED_QUEUE, t)

\* enqueue_thread(queue, t), whatever the size of the queue, for the
\* lowest-numbered descriptor that is on no queue; one queue is in use at a
\* time
FEnqueue ==
    /\ \E q \in HeapQueues \cup RingQueues, t \in Threads :
         /\ OnNoQueue(hp, rg, t)
         /\ \A o \in HeapQueues \ {q} : hp[o] = <<>>
         /\ \A o \in RingQueues \ {q} : rg[o] = EmptyRing
         /\ \A u \in Threads : OnNoQueue(hp, rg, u) => t <= u
         /\ SetWorld(enqueue_thread(World, q, t))
         /\ ev' = [NoEvent EXCEPT !.op = "enqueue", !.t = t, !.q = q]
    /\ UNCHANGED <<allocated, cur, now, tsc, apic, sys, hk, parked, nexit, out, fifo>>

\* dequeue_thread(queue) on a queue that holds something
FDequeue ==
    /\ \E q \in HeapQueues \cup RingQueues :
         /\ IF q \in HeapQueues THEN Len(hp[q]) > 0 ELSE rg[q].size > 0
         /\ \E d \in {dequeue_thread(World, q)} :
              /\ SetWorld(d.W)
              /\ ev' = [NoEvent EXCEPT !.op = "dequeue", !.ret = d.ret, !.q = q]
    /\ UNCHANGED <<allocated, cur, now, tsc, apic, sys, hk, parked, nexit, out, fifo>>

NextFull ==
    \/ FEnqueue
    \/ FDequeue

SpecFull == InitFull /\ [][NextFull]_vars

\* ------------------------------------------------- creation alone
\* A sixth specification separates the two halves of a thread start:
\* rt_thread_init returns the descriptor, and only a later step of the caller
\* puts it on arrival.  The event of a creation carries the relative
\* deadline that was asked for in ev.ret.
CCreate ==
    /\ allocated # Threads
    /\ \E p \in Profiles :
         LET t == CHOOSE x \in Threads \ allocated :
                     \A y \in Threads \ allocated : x <= y
         IN /\ thr' = [thr EXCEPT ![t] = rt_thread_init(p, now)]
            /\ allocated' = allocated \cup {t}
            /\ ev' = [NoEvent EXCEPT !.op = "create", !.t = t, !.ret = p.rel]
    /\ UNCHANGED <<hp, rg, cur, now, tsc, apic, sys, hk, parked, nexit, out, fifo>>

\* the caller's enqueue_thread(arrival, t) of a descriptor created earlier
CStart ==
    /\ \E t \in allocated \ {MainThread, BootThread} :
         /\ OnNoQueue(hp, rg, t)
         /\ SetWorld(enqueue_thread(World, ARRIVAL_QUEUE, t))
         /\ ev' = [NoEvent EXCEPT !.op = "enqueue", !.t = t, !.q = ARRIVAL_QUEUE]
    /\ UNCHANGED <<allocated, cur, now, tsc, apic, sys, hk, parked, nexit, out, fifo>>

NextCreate == CCreate \/ CStart \/ Tick

SpecCreate == Init /\ [][NextCreate]_vars

\* ---------------------------------------------- removal from a ring
\* A seventh specification drives one of the rings arrival, waiting and
\* sleeping with enqueue_thread, dequeue_thread and remove_thread.  A removal
\* that traps, or that never leaves its shift loop, ends the run.
MEnqueue == sys = "RUN" /\ REnqueue

MDequeue == sys = "RUN" /\ RDequeue

\* remove_thread(t) for a descriptor t that is on the ring its tag names; n is
\* what the read of queue->type through the NULL pointer gives
RRemove ==
    /\ sys = "RUN"
    /\ \E t \in Threads, n \in NullReads :
         /\ thr[t].q_type \in RingQueues \ {EXITED_QUEUE}
         /\ InRing(rg, thr[t].q_type, t)
         /\ \E r \in {remove_thread(World, t, n)} :
              /\ SetWorld(r.W)
              /\ sys' = IF r.out = "fault" THEN "FAULT"
                        ELSE IF r.out = "hang" THEN "HANG" ELSE sys
              /\ fifo' = IF r.ret = t
                         THEN [fifo EXCEPT ![thr[t].q_type] =
                                 SelectSeq(fifo[thr[t].q_type], LAMBDA x : x # t)]
                         ELSE fifo
              /\ ev' = [NoEvent EXCEPT !.op = "remove", !.t = t, !.ret = r.ret,
                                       !.q = thr[t].q_type]
    /\ UNCHANGED <<allocated, cur, now, tsc, apic, hk, parked, nexit, out>>

NextRemove ==
    \/ MEnqueue
    \/ MDequeue
    \/ RRemove

SpecRemove == InitRing /\ [][NextRemove]_vars

\* ------------------------------------------------ periods over time
\* An eighth specification follows periodic threads over several periods.
\* It starts where main_thread is running at time 0 and descriptors 2 and 3,
\* made PERIODIC by rt_thread_init at time 0 and admitted, are on pending;
\* from there time passes, up to MaxLate, and reschedules happen at any time.
InitPeriod ==
    /\ \E p2, p3 \in {p \in Profiles : p.type = PERIODIC} :
         \E T0 \in {[t \in Threads |->
                       IF t = MainThread
                       THEN [BlankThread EXCEPT !.status = ADMITTED,
                                                !.q_type = APERIODIC_QUEUE]
                       ELSE IF t = 2
                       THEN [rt_thread_init(p2, 0) EXCEPT !.status = ADMITTED]
                       ELSE IF t = 3
                       THEN [rt_thread_init(p3, 0) EXCEPT !.status = ADMITTED]
                       ELSE BlankThread]} :
         \E W0 \in {enqueue_thread(
                       enqueue_thread([thr |-> T0,
                                       hp |-> [q \in HeapQueues |-> <<>>],
                                       rg |-> [q \in RingQueues |-> EmptyRing]],
                                      PENDING_QUEUE, 2),
                       PENDING_QUEUE, 3)} :
            thr = W0.thr /\ hp = W0.hp /\ rg = W0.rg
    /\ allocated = {MainThread, 2, 3}
    /\ cur = MainThread
    /\ now = 0
    /\ tsc = [start_time |-> 0, set_time |-> QUANTUM, end_time |-> 0]
    /\ apic = QUANTUM
    /\ sys = "RUN"
    /\ hk = [pc |-> "loop", d |-> NULLT]
    /\ parked = {2, 3}
    /\ nexit = 0
    /\ ev = NoEvent
    /\ out = NoOut
    /\ fifo = NoFifo

\* the cycle counter advances
PTick ==
    /\ sys = "RUN"
    /\ now < MaxLate
    /\ now' = now + 1
    /\ ev' = [NoEvent EXCEPT !.op = "tick"]
    /\ UNCHANGED <<thr, allocated, hp, rg, cur, tsc, apic, sys, hk, parked, nexit, out, fifo>>

NextPeriod == Resched \/ PTick

SpecPeriod == InitPeriod /\ [][NextPeriod]_vars

\* --------------------------------------------- exits of queued threads
\* A ninth specification is the pool of the second one, driven by
\* enqueue_thread, by the dispatcher and by rt_thread_exit(t) for any
\* descriptor t, running or queued.
XExit ==
    /\ sys = "RUN"
    /\ nexit < MaxExit
    /\ nexit' = nexit + 1
    /\ \E t \in Threads :
         /\ thr[t].status # TOBE_REMOVED
         /\ SetWorld(rt_thread_exit(World, t))
         /\ ev' = [NoEvent EXCEPT !.op = "exit", !.t = t, !.q = EXITED_QUEUE]
    /\ UNCHANGED <<allocated, cur, now, tsc, apic, sys, hk, parked, out, fifo>>

NextEdf ==
    \/ HEnqueue
    \/ XExit
    \/ Resched

SpecEdf == InitHeap /\ [][NextEdf]_vars

\* ------------------------------------- the housekeeper, interrupted
\* A specification in which dequeue_thread(sched->exited) of the housekeeper
\* (sched_sim, line 1317) is not one step: nothing in sched_sim or in
\* dequeue_thread masks interrupts, so the timer interrupt can enter
\* rt_need_resched between any two instructions of the call.  The call is cut
\* once, inside `queue->size--` (line 767), between the load of size and the
\* store of the decremented value.  The housekeeper is descriptor HkThread, as
\* rt_start creates it (PERIODIC, running); a worker is on runnable or
\* aperiodic, main_thread is on aperiodic, and one descriptor has already
\* exited.  arrival stays empty.
HkThread == 3

InitIntr ==
    /\ \E ph \in {p \in Profiles : p.type = PERIODIC}, pw \in Profiles :
         \E T0 \in {[t \in Threads |->
                       IF t = MainThread
                       THEN [BlankThread EXCEPT !.status = ADMITTED]
                       ELSE IF t = HkThread
                       THEN [rt_thread_init(ph, 0) EXCEPT !.status = ADMITTED]
                       ELSE IF t = 4
                       THEN [rt_thread_init(pw, 0) EXCEPT !.status = ADMITTED]
                       ELSE IF t = 5
                       THEN [rt_thread_init(pw, 0) EXCEPT !.status = ADMITTED]
                       ELSE BlankThread]} :
         \E W0 \in {rt_thread_exit(
                      enqueue_thread(
                        enqueue_thread([thr |-> T0,
                                        hp |-> [q \in HeapQueues |-> <<>>],
                                        rg |-> [q \in RingQueues |-> EmptyRing]],
                                       APERIODIC_QUEUE, MainThread),
                        IF pw.type = APERIODIC THEN APERIODIC_QUEUE
                        ELSE RUNNABLE_QUEUE, 4),
                      5)} :
            thr = W0.thr /\ hp = W0.hp /\ rg = W0.rg
    /\ allocated = {MainThread, HkThread, 4, 5}
    /\ cur = HkThread
    /\ now = 0
    /\ tsc = [start_time |-> 0, set_time |-> QUANTUM, end_time |-> 0]
    /\ apic = QUANTUM
    /\ sys = "RUN"
    /\ hk = [pc |-> "loop", d |-> NULLT, pos |-> 0, sz |-> 0]
    /\ parked = {4}
    /\ nexit = 0
    /\ ev = NoEvent
    /\ out = NoOut
    /\ fifo = NoFifo

\* dequeue_thread(sched->exited), lines 759-767 up to the load of queue->size
IDequeueBegin ==
    /\ sys = "RUN"
    /\ cur = HkThread
    /\ hk.pc = "loop"
    /\ LET r == rg[EXITED_QUEUE]
       IN IF r.head = r.tail
          THEN /\ UNCHANGED <<rg, hk>>
               /\ ev' = [NoEvent EXCEPT !.op = "hk_dequeue", !.q = EXITED_QUEUE]
          ELSE /\ rg' = [rg EXCEPT ![EXITED_QUEUE].head =
                            IF r.head + 1 = MAX_QUEUE THEN 0 ELSE r.head + 1]
               /\ hk' = [pc |-> "dec", d |-> NULLT, pos |-> r.head, sz |-> r.size]
               /\ ev' = [NoEvent EXCEPT !.op = "hk_begin", !.q = EXITED_QUEUE]
    /\ UNCHANGED <<thr, allocated, hp, cur, now, tsc, apic, sys, parked, nexit, out, fifo>>

\* the rest of the call: the store of size (767), the TOBE_REMOVED test and
\* the repeated call (769-775); what sched_sim does with the result (1318)
IDequeueEnd ==
    /\ sys = "RUN"
    /\ cur = HkThread
    /\ hk.pc = "dec"
    /\ \E W1 \in {[World EXCEPT !.rg[EXITED_QUEUE].size = U64(hk.sz - 1)]} :
       \E d \in {IF W1.thr[W1.rg[EXITED_QUEUE].threads[hk.pos]].status = TOBE_REMOVED
                 THEN dequeue_thread(W1, EXITED_QUEUE)
                 ELSE [W |-> W1, ret |-> W1.rg[EXITED_QUEUE].threads[hk.pos]]} :
          /\ SetWorld(d.W)
          /\ hk' = [pc |-> IF d.ret = NULLT THEN "loop" ELSE "remove",
                    d |-> d.ret, pos |-> 0, sz |-> 0]
          /\ ev' = [NoEvent EXCEPT !.op = "hk_end", !.ret = d.ret, !.q = EXITED_QUEUE]
    /\ UNCHANGED <<allocated, cur, now, tsc, apic, sys, parked, nexit, out, fifo>>

\* a running thread other than the housekeeper ends itself
WorkerExit == cur # HkThread /\ Exit

NextIntr ==
    \/ IDequeueBegin
    \/ IDequeueEnd
    \/ WorkerExit
    \/ Resched
    \/ Tick

SpecIntr == InitIntr /\ [][NextIntr]_vars

\* ============================================================ properties
\* how often descriptor t occurs on a heap queue / among the live slots of a
\* ring queue
HeapCount(q, t) == Cardinality({i \in 1..Len(hp[q]) : hp[q][i] = t})
RingCount(q, t) == Cardinality({i \in RingSlots(rg[q]) : rg[q].threads[i] = t})

\* occurrences on the six queues other than exited, and on all seven
ParkedCount(t) ==
    HeapCount(RUNNABLE_QUEUE, t) + HeapCount(PENDING_QUEUE, t)
    + HeapCount(APERIODIC_QUEUE, t) + RingCount(ARRIVAL_QUEUE, t)
    + RingCount(WAITING_QUEUE, t) + RingCount(SLEEPING_QUEUE, t)
AllCount(t) == ParkedCount(t) + RingCount(EXITED_QUEUE, t)

C2_HeapOrder ==
    \A q \in HeapQueues : \A i \in 2..Len(hp[q]) :
        HeapKey(thr, q, hp[q][i \div 2]) <= HeapKey(thr, q, hp[q][i])

\* a dequeue that left three entries with different keys behind
C2_DequeueSifted ==
    /\ ev.op = "dequeue"
    /\ ev.ret # NULLT
    /\ Len(hp[ev.q]) = 3
    /\ HeapKey(thr, ev.q, hp[ev.q][1]) < HeapKey(thr, ev.q, hp[ev.q][2])
    /\ HeapKey(thr, ev.q, hp[ev.q][3]) < HeapKey(thr, ev.q, hp[ev.q][2])

\* C3 as stated: the descriptor returned by reschedule is never one whose
\* status is TOBE_REMOVED.
C3_NeverToBeRemoved ==
    (ev.op = "resched" /\ ev.ret # NULLT) => thr[ev.ret].status # TOBE_REMOVED

\* slice * 100000 / period of one descriptor, and its sum over a set
PeriodicShare(T, t) == (T[t].slice * 100000) \div T[t].period
RECURSIVE UtilOfSet(_, _)
UtilOfSet(T, S) ==
    IF S = {} THEN 0
    ELSE PeriodicShare(T, CHOOSE x \in S : TRUE)
         + UtilOfSet(T, S \ {CHOOSE x \in S : TRUE})

\* the periodic descriptors on runnable or pending
AdmittedPeriodic ==
    {t \in Threads : /\ thr[t].type = PERIODIC
                     /\ \/ InHeap(hp, RUNNABLE_QUEUE, t)
                        \/ InHeap(hp, PENDING_QUEUE, t)}

\* C4 as stated: the sum of slice*100000/period over the periodic
\* descriptors on runnable and pending is at most 65000 in every state.
C4_UtilBound == UtilOfSet(thr, AdmittedPeriodic) <= PERIODIC_UTIL

\* the remaining budget of a descriptor record
Budget(T) ==
    IF T.type = PERIODIC THEN T.slice - T.run_time
    ELSE IF T.type = SPORADIC THEN T.work - T.run_time
    ELSE QUANTUM

\* C5: the interval reschedule writes to the timer is <= the remaining
\* budget of the chosen thread and, when pending is not empty, <= the time
\* until the earliest pending deadline.
C5_TimerBound ==
    (ev.op = "resched" /\ ev.ret # NULLT) =>
        /\ apic <= Budget(thr[cur])
        /\ Len(hp[PENDING_QUEUE]) > 0 =>
              apic <= thr[hp[PENDING_QUEUE][1]].deadline - now

\* a reschedule where the pending deadline, not the budget, set the timer
C5_DeadlineBinds ==
    /\ ev.op = "resched"
    /\ ev.ret # NULLT
    /\ Len(hp[PENDING_QUEUE]) > 0
    /\ apic = thr[hp[PENDING_QUEUE][1]].deadline - now
    /\ apic < Budget(thr[cur])

\* C6: a reschedule that re-releases a periodic descriptor (from the release
\* drain or on slice completion) leaves it with run_time 0 and deadline
\* now + period; a sporadic or aperiodic descriptor handed to the re-release
\* keeps its deadline and run_time.
C6_Release ==
    [][ev'.op = "resched" =>
         \A t \in ev'.rel :
            IF thr[t].type = PERIODIC
            THEN /\ thr'[t].run_time = 0
                 /\ thr'[t].deadline = now + thr[t].period
            ELSE /\ thr'[t].deadline = thr[t].deadline
                 /\ thr'[t].run_time = thr[t].run_time]_vars

\* a reschedule whose drain took a periodic and a sporadic descriptor
C6_BothReleased ==
    /\ ev.op = "resched"
    /\ \E t \in ev.rel : thr[t].type = PERIODIC
    /\ \E t \in ev.rel : thr[t].type = SPORADIC

\* C7: rt_admit accepts a periodic candidate exactly when the sum of
\* slice*100000/period over the periodic descriptors on runnable and pending,
\* plus the candidate's own, is <= 65000; the housekeeper's call of rt_admit
\* leaves the heap queues and every descriptor as they were.
C7_PeriodicAdmit ==
    [][(ev'.op \in {"admit", "hk"} /\ ev'.t # NULLT /\ thr[ev'.t].type = PERIODIC) =>
         /\ (ev'.ret = 1) <=>
               (UtilOfSet(thr, AdmittedPeriodic) + PeriodicShare(thr, ev'.t)
                  <= PERIODIC_UTIL)
         /\ ev'.op = "hk" => (hp' = hp /\ thr' = thr)]_vars

\* the housekeeper's rt_admit accepted a periodic candidate while other
\* periodic descriptors were queued
C7_AcceptedBesideOthers ==
    /\ ev.op = "hk"
    /\ ev.t # NULLT
    /\ thr[ev.t].type = PERIODIC
    /\ ev.ret = 1
    /\ AdmittedPeriodic # {}

\* work * 100000 / (deadline - now) of one descriptor, as an integer quotient
\* rounded towards minus infinity; 0 where the divisor is 0
SporadicShare(T, t, time) ==
    IF T[t].deadline > time THEN (T[t].work * 100000) \div (T[t].deadline - time)
    ELSE IF T[t].deadline < time
    THEN 0 - ((T[t].work * 100000 + (time - T[t].deadline) - 1)
               \div (time - T[t].deadline))
    ELSE 0
RECURSIVE SporUtilOfSet(_, _, _)
SporUtilOfSet(T, S, time) ==
    IF S = {} THEN 0
    ELSE SporadicShare(T, CHOOSE x \in S : TRUE, time)
         + SporUtilOfSet(T, S \ {CHOOSE x \in S : TRUE}, time)

\* the sporadic descriptors on runnable
SporadicRunnable ==
    {t \in Threads : thr[t].type = SPORADIC /\ InHeap(hp, RUNNABLE_QUEUE, t)}

\* C8 as stated: rt_admit answers for a sporadic candidate, and accepts it
\* exactly when the sum of work*100000/(deadline - now) over the sporadic
\* descriptors on runnable is <= 18000; it accepts every aperiodic candidate.
C8_SporadicAdmit ==
    [][(ev'.op \in {"admit", "hk"} /\ ev'.t # NULLT) =>
         /\ thr[ev'.t].type = APERIODIC => ev'.ret = 1
         /\ thr[ev'.t].type = SPORADIC =>
               /\ ev'.ret \in {0, 1}
               /\ (ev'.ret = 1) <=>
                     (SporUtilOfSet(thr, SporadicRunnable, now) <= SPORADIC_UTIL)]_vars

\* C9 as stated: a candidate the housekeeper took from arrival and rt_admit
\* accepted is ADMITTED and on exactly one queue, the one of its class.
C9_AcceptedParked ==
    (ev.op = "hk" /\ ev.t # NULLT /\ ev.ret = 1) =>
        /\ thr[ev.t].status = ADMITTED
        /\ ParkedCount(ev.t) = 1
        /\ InHeap(hp, ParkQueue(thr, ev.t, now), ev.t)

\* C10: a candidate the housekeeper took from arrival and rt_admit rejected
\* is on none of runnable, pending and aperiodic after the step, and these
\* three queues are what they were before it.
C10_RejectDiscarded ==
    [][(ev'.op = "hk" /\ ev'.t # NULLT /\ ev'.ret = 0) =>
         /\ hp' = hp
         /\ \A q \in HeapQueues : ~InHeap(hp', q, ev'.t)]_vars

\* the housekeeper's rt_admit rejected a periodic candidate
C10_Rejected ==
    /\ ev.op = "hk"
    /\ ev.t # NULLT
    /\ ev.ret = 0
    /\ thr[ev.t].type = PERIODIC
    /\ Detached(hp, rg, ev.t)

\* the descriptors enqueue_thread has put on heap queue q (it stamps q_type)
LoadedOn(q) == {t \in Threads : thr[t].q_type = q}

\* C11: a heap queue loaded with a set S of at most MAX_QUEUE descriptors,
\* none TOBE_REMOVED, in any order and then drained gives back exactly S,
\* each descriptor once, in non-decreasing order of the key: at every point
\* of the drain the dequeued descriptors are distinct and in key order, none
\* of them is still queued, and together with the queued ones they are S.
C11_SortedDrain ==
    \A q \in HeapQueues :
        /\ \A i, j \in 1..Len(out[q]) :
              i < j => /\ out[q][i] # out[q][j]
                       /\ HeapKey(thr, q, out[q][i]) <= HeapKey(thr, q, out[q][j])
        /\ \A i \in 1..Len(out[q]) : out[q][i] # NULLT /\ ~InHeap(hp, q, out[q][i])
        /\ \A t \in Threads : HeapCount(q, t) <= 1
        /\ {out[q][i] : i \in 1..Len(out[q])} \cup {hp[q][i] : i \in 1..Len(hp[q])}
              = LoadedOn(q)

\* a queue loaded to its capacity with three different keys, the largest key
\* first in descriptor order, has been drained to empty
C11_DrainedFull ==
    \E q \in HeapQueues :
        /\ hp[q] = <<>>
        /\ Len(out[q]) = MAX_QUEUE
        /\ Cardinality({HeapKey(thr, q, out[q][i]) : i \in 1..MAX_QUEUE}) = MaxKey + 1
        /\ out[q][MAX_QUEUE] < out[q][1]
\* C12: every ring queue is first-in first-out: a descriptor returned by
\* dequeue_thread is the oldest descriptor the ring accepted that has not
\* been passed yet and is not TOBE_REMOVED, whatever the interleaving of
\* enqueues and dequeues and however often head and tail have wrapped; and
\* when the ring holds the single descriptor x, not TOBE_REMOVED, the dequeue
\* returns x.
C12_RingFifo ==
    [][(ev'.op = "dequeue" /\ ev'.q \in RingQueues)
       => /\ ev'.ret # NULLT => ev'.ret = FirstLive(thr, fifo[ev'.q])
          /\ (Len(fifo[ev'.q]) = 1 /\ rg[ev'.q].size = 1
               /\ thr[fifo[ev'.q][1]].status # TOBE_REMOVED)
              => ev'.ret = fifo[ev'.q][1]]_vars

\* a dequeue has returned a descriptor from a ring whose head and tail have
\* both wrapped, with another descriptor still queued behind it
C12_WrappedDequeue ==
    /\ ev.op = "dequeue"
    /\ ev.q \in RingQueues
    /\ ev.ret # NULLT
    /\ rg[ev.q].tail < rg[ev.q].head
    /\ rg[ev.q].threads[0] # NULLT
    /\ fifo[ev.q] # <<>>

\* C13: in every ring queue size = 0 exactly when head = tail, and the live
\* entries are the size slots from head up to tail modulo MAX_QUEUE, also
\* after the ring has been filled to MAX_QUEUE entries.
C13_RingShape ==
    \A q \in RingQueues :
        /\ (rg[q].size = 0) <=> (rg[q].head = rg[q].tail)
        /\ rg[q].size <= MAX_QUEUE
        /\ rg[q].tail = (rg[q].head + rg[q].size) % MAX_QUEUE
\* C14: a descriptor that rt_thread_exit marked TOBE_REMOVED and put on exited
\* is taken from exited by the housekeeper only to be removed from the queue
\* it is parked on, marked REMOVED and freed: a descriptor that is still
\* TOBE_REMOVED is still waiting on exited.
C14_ExitedHandled ==
    \A t \in Threads :
        thr[t].status = TOBE_REMOVED => RingCount(EXITED_QUEUE, t) > 0
\* C15: as long as main_thread, which rt_scheduler_init put on aperiodic, is
\* not TOBE_REMOVED, no reschedule calls panic: the fallback dequeue from
\* aperiodic always returns a descriptor.
C15_NoPanic ==
    thr[MainThread].status # TOBE_REMOVED => sys # "PANIC"
\* C16: sampled after each reschedule returns, runnable holds only descriptors
\* whose deadline is not in the future (deadline <= now) and pending holds
\* only descriptors whose deadline is in the future.
C16_QueuesByDeadline ==
    (ev.op = "resched" /\ sys = "RUN")
    => /\ \A i \in 1..Len(hp[RUNNABLE_QUEUE]) : thr[hp[RUNNABLE_QUEUE][i]].deadline <= now
       /\ \A i \in 1..Len(hp[PENDING_QUEUE]) : thr[hp[PENDING_QUEUE][i]].deadline > now
\* the world the release drain of a reschedule entered now leaves behind
DrainedWorld ==
    ReleaseDrain(update_exit(World, cur, now), U64(sched_run_time + now), now, {}).W

\* in the world D the thread c is periodic or sporadic and has budget left
BudgetLeft(D, c) ==
    \/ D.thr[c].type = PERIODIC /\ D.thr[c].run_time < D.thr[c].slice
    \/ D.thr[c].type = SPORADIC /\ D.thr[c].run_time < D.thr[c].work

\* the root of runnable in D has a deadline strictly before that of c
RootEarlier(D, c) ==
    /\ Len(D.hp[RUNNABLE_QUEUE]) > 0
    /\ D.thr[D.hp[RUNNABLE_QUEUE][1]].deadline < D.thr[c].deadline

\* the members of runnable in D, and those of them that are not TOBE_REMOVED
RunSet(D) == {D.hp[RUNNABLE_QUEUE][i] : i \in 1..Len(D.hp[RUNNABLE_QUEUE])}
LiveRun(D) == {t \in RunSet(D) : D.thr[t].status # TOBE_REMOVED}

\* C17 as stated, for a call that found D after its drain, ran c before,
\* returned ret and left runnable as h
C17_Stated(D, c, ret, h) ==
    BudgetLeft(D, c)
    => IF RootEarlier(D, c)
       THEN /\ ret = D.hp[RUNNABLE_QUEUE][1]
            /\ \E i \in 1..Len(h) : h[i] = c
       ELSE /\ ret = c
            /\ h = D.hp[RUNNABLE_QUEUE]

\* C17 as stated: a reschedule entered with a periodic or sporadic thread cur
\* that has budget left returns the root of runnable and puts cur back on
\* runnable when that root's deadline is strictly before cur's; otherwise it
\* returns cur and leaves runnable as the release drain left it.
C17_PreemptRoot ==
    [][ev'.op = "resched"
       => C17_Stated(DrainedWorld, cur, ev'.ret, hp'[RUNNABLE_QUEUE])]_vars

\* C17 amended, for a call that found D after its drain
C17_Amended(D, c, ret, h) ==
    BudgetLeft(D, c)
    => IF RootEarlier(D, c)
       THEN IF LiveRun(D) # {}
            THEN /\ ret \in LiveRun(D)
                 /\ \A t \in LiveRun(D) : D.thr[ret].deadline <= D.thr[t].deadline
                 /\ \E i \in 1..Len(h) : h[i] = c
                 /\ {h[i] : i \in 1..Len(h)} \ {c} \subseteq RunSet(D) \ {ret}
                 /\ \A t \in RunSet(D) \ ({ret} \cup {h[i] : i \in 1..Len(h)}) :
                       /\ D.thr[t].status = TOBE_REMOVED
                       /\ D.thr[t].deadline <= D.thr[ret].deadline
            ELSE /\ ret = c
                 /\ h = <<>>
       ELSE /\ ret = c
            /\ h = D.hp[RUNNABLE_QUEUE]

\* C17 amended: when the root of runnable has a deadline strictly before
\* cur's, the TOBE_REMOVED descriptors in front of the earliest live one are
\* discarded from runnable; if a live descriptor is left, the one with the
\* earliest deadline is returned and cur is put back on runnable, and if none
\* is left cur is returned; otherwise cur is returned and runnable is left as
\* the release drain left it.
C17_PreemptLive ==
    [][ev'.op = "resched"
       => C17_Amended(DrainedWorld, cur, ev'.ret, hp'[RUNNABLE_QUEUE])]_vars

\* a reschedule found a TOBE_REMOVED root on runnable in front of the running
\* thread, dropped it and returned a live descriptor, the running thread
\* going back on runnable
C17_SkippedRoot ==
    /\ ev.op = "resched"
    /\ ev.prev # ev.ret
    /\ ev.ret # NULLT
    /\ thr[ev.prev].type # APERIODIC
    /\ InHeap(hp, RUNNABLE_QUEUE, ev.prev)
    /\ \E t \in Threads : /\ thr[t].status = TOBE_REMOVED
                           /\ thr[t].q_type = RUNNABLE_QUEUE
                           /\ ~InHeap(hp, RUNNABLE_QUEUE, t)
                           /\ thr[t].deadline < thr[ev.prev].deadline
\* every sporadic descriptor keeps its deadline over the step
SporadicDeadlinesKept ==
    \A t \in Threads : thr[t].type = SPORADIC => thr'[t].deadline = thr[t].deadline

\* the running thread is sporadic and, billed up to now, has done its work
SporadicDone ==
    thr[cur].type = SPORADIC /\ thr'[cur].run_time >= thr'[cur].work

\* C18 as stated: a reschedule entered with a running sporadic thread whose
\* run_time >= work does not release it again: after the call it is on none
\* of the seven queues, it is not the returned thread and its deadline is
\* unchanged; and no reschedule changes the deadline of a sporadic thread.
C18_InNoQueue ==
    [][ev'.op = "resched"
       => /\ SporadicDeadlinesKept
          /\ SporadicDone => /\ Detached(hp', rg', cur)
                              /\ ~InRing(rg', EXITED_QUEUE, cur)
                              /\ ev'.ret # cur]_vars

\* C18 amended: as stated, with "on none of the six queues other than
\* exited" for "in no queue": a sporadic thread that called rt_thread_exit
\* stays on exited.
C18_NotRequeued ==
    [][ev'.op = "resched"
       => /\ SporadicDeadlinesKept
          /\ SporadicDone => /\ Detached(hp', rg', cur)
                              /\ ev'.ret # cur]_vars

\* a reschedule has switched away from a spawned sporadic thread that had
\* done its work and had called rt_thread_exit: it is on exited, on no other
\* queue, and its deadline is still the one rt_thread_init gave it
C18_DoneAndExited ==
    /\ ev.op = "resched"
    /\ ev.prev \notin {NULLT, BootThread, ev.ret}
    /\ ev.ret # NULLT
    /\ thr[ev.prev].type = SPORADIC
    /\ thr[ev.prev].run_time >= thr[ev.prev].work
    /\ thr[ev.prev].status = TOBE_REMOVED
    /\ InRing(rg, EXITED_QUEUE, ev.prev)
    /\ Detached(hp, rg, ev.prev)
\* every periodic descriptor of T has run_time <= slice
PeriodicWithin(T) ==
    \A t \in Threads : T[t].type = PERIODIC => T[t].run_time <= T[t].slice

\* a reschedule entered now comes no later than the expiry of the interval
\* the previous one wrote to the timer
Timely == U64(now - tsc.start_time) <= apic

\* C19: every periodic thread has run_time <= slice in every reachable state,
\* provided every reschedule happens no later than the expiry of the timer
\* interval the previous reschedule programmed: no step breaks the bound,
\* a reschedule being taken to come in time.
C19_WithinSlice ==
    [][(PeriodicWithin(thr) /\ (ev'.op = "resched" => Timely))
       => PeriodicWithin(thr')]_vars

\* a reschedule has switched away from a periodic thread that it billed up
\* to exactly its slice and parked on pending
C19_SliceUsedUp ==
    /\ ev.op = "resched"
    /\ ev.prev # NULLT
    /\ ev.prev # ev.ret
    /\ thr[ev.prev].type = PERIODIC
    /\ thr[ev.prev].slice > 0
    /\ thr[ev.prev].run_time = thr[ev.prev].slice
    /\ thr[ev.prev].exit_time > thr[ev.prev].start_time
    /\ InHeap(hp, PENDING_QUEUE, ev.prev)
\* an aperiodic thread is running, runnable is empty and the root of pending
\* is the periodic thread a, not TOBE_REMOVED
AperiodicBeforeRelease(a) ==
    /\ thr[cur].type = APERIODIC
    /\ hp[RUNNABLE_QUEUE] = <<>>
    /\ Len(hp[PENDING_QUEUE]) > 0
    /\ hp[PENDING_QUEUE][1] = a
    /\ thr[a].type = PERIODIC
    /\ thr[a].status # TOBE_REMOVED

\* C20: while an aperiodic thread runs and the periodic thread A waits on
\* pending with deadline d, a reschedule before d selects an aperiodic thread
\* again and arms the timer to expire no later than d, and the reschedule at
\* time d moves A to runnable and returns it in preference to every
\* aperiodic thread.
C20_ReleasedAtDeadline ==
    [][\A a \in Threads :
         (ev'.op = "resched" /\ AperiodicBeforeRelease(a))
         => /\ now < thr[a].deadline
                => /\ ev'.ret # NULLT
                   /\ thr[ev'.ret].type = APERIODIC
                   /\ now + apic' <= thr[a].deadline
            /\ now = thr[a].deadline
                => /\ ev'.ret = a
                   /\ a \in ev'.rel
                   /\ ~InHeap(hp', PENDING_QUEUE, a)]_vars

\* t is a sporadic descriptor that has done its work
Finished(t) == thr[t].type = SPORADIC /\ thr[t].run_time >= thr[t].work

\* C21: a rejected enqueue loses no descriptor: every admitted descriptor
\* that is neither finished nor TOBE_REMOVED is the running descriptor or a
\* member of exactly one of the six queues other than exited.
C21_NoneLost ==
    \A t \in Threads :
        (thr[t].status = ADMITTED /\ ~Finished(t))
        => (t = cur \/ ParkedCount(t) = 1)
\* queue->size of queue q in the heaps h and rings g
QueueSize(h, g, q) == IF q \in HeapQueues THEN Len(h[q]) ELSE g[q].size

\* C22: enqueue_thread on a queue whose size is MAX_QUEUE changes nothing,
\* neither the queue (contents, size, head, tail) nor the descriptor (queue
\* tag, status); on any other queue it raises size by exactly one and sets
\* the descriptor's queue tag to the queue's type.
C22_FullRejected ==
    [][ev'.op = "enqueue"
       => IF QueueSize(hp, rg, ev'.q) = MAX_QUEUE
          THEN hp' = hp /\ rg' = rg /\ thr' = thr
          ELSE /\ QueueSize(hp', rg', ev'.q) = QueueSize(hp, rg, ev'.q) + 1
               /\ thr'[ev'.t].q_type = ev'.q]_vars

\* an enqueue on a full queue has been rejected for a descriptor that
\* carries the tag of another queue it was on before
C22_RejectedElsewhere ==
    /\ ev.op = "enqueue"
    /\ QueueSize(hp, rg, ev.q) = MAX_QUEUE
    /\ OnNoQueue(hp, rg, ev.t)
    /\ thr[ev.t].q_type \notin {NOQ, ev.q}
\* t is a member of queue q
MemberOf(q, t) == IF q \in HeapQueues THEN InHeap(hp, q, t) ELSE InRing(rg, q, t)

\* C23: the queue tag of every descriptor matches reality: a member of queue
\* Q carries the tag of Q, a descriptor whose tag names Q is a member of Q,
\* and the running descriptor names no queue.
C23_TagMatches ==
    \A t \in allocated :
        /\ \A q \in HeapQueues \cup RingQueues : MemberOf(q, t) => thr[t].q_type = q
        /\ thr[t].q_type # NOQ => MemberOf(thr[t].q_type, t)
        /\ t = cur => thr[t].q_type = NOQ
\* the place of a status in the lifecycle Arrived -> Admitted ->
\* (Running / Waiting / Sleeping) -> ToBeRemoved -> Removed
LifecycleRank(st) ==
    IF st = ARRIVED THEN 0
    ELSE IF st = ADMITTED THEN 1
    ELSE IF st \in {RUNNING, WAITING, SLEEPING} THEN 2
    ELSE IF st = TOBE_REMOVED THEN 3
    ELSE 4

\* C24: the status of a descriptor only moves forward along the lifecycle:
\* no step takes it to an earlier stage, in particular none takes a
\* TOBE_REMOVED or REMOVED descriptor back; RUNNING is set only by the
\* dispatcher, and TOBE_REMOVED becomes REMOVED only in the housekeeper.
C24_Lifecycle ==
    [][\A t \in Threads :
         /\ LifecycleRank(thr'[t].status) >= LifecycleRank(thr[t].status)
         /\ (thr'[t].status = RUNNING /\ thr[t].status # RUNNING)
              => ev'.op = "resched"
         /\ (thr'[t].status = REMOVED /\ thr[t].status # REMOVED)
              => (thr[t].status = TOBE_REMOVED /\ ev'.op \in {"hk", "hk_remove"})]_vars
\* C25: the descriptor a creation returns has status ARRIVED, run_time 0,
\* start_time 0, the deadline now + period if periodic, now + the relative
\* deadline asked for if sporadic and 0 if aperiodic, and is on no queue.
C25_Created ==
    ev.op = "create" =>
        /\ thr[ev.t].status = ARRIVED
        /\ thr[ev.t].run_time = 0
        /\ thr[ev.t].start_time = 0
        /\ thr[ev.t].deadline =
              (IF thr[ev.t].type = PERIODIC THEN now + thr[ev.t].period
               ELSE IF thr[ev.t].type = SPORADIC THEN now + ev.ret
               ELSE 0)
        /\ AllCount(ev.t) = 0

\* a periodic descriptor created after time 0 while an earlier one waits on
\* arrival
C25_CreatedLater ==
    /\ ev.op = "create"
    /\ thr[ev.t].type = PERIODIC
    /\ now > 0
    /\ rg[ARRIVAL_QUEUE].size > 0
\* the run time billed to c at a reschedule at time `time` (spec 4.2 step 1)
Billed(T, c, time) == U64(T[c].run_time + U64(time - T[c].start_time))

\* what C26 prescribes for a periodic c that has used up its slice, from the
\* descriptors T and heaps h before the call to the descriptors T2, heaps h2
\* and returned thread ret after it
C26_Stated(T, h, c, time, T2, h2, ret) ==
    /\ IF time <= T[c].deadline
       THEN /\ T2[c].deadline = time + T[c].period
            /\ T2[c].run_time = 0
            /\ (InHeap(h2, RUNNABLE_QUEUE, c) \/ ret = c)
       ELSE /\ InHeap(h2, PENDING_QUEUE, c)
            /\ T2[c].deadline = T[c].deadline
    /\ ret # NULLT =>
          \/ ret = c
          \/ \E q \in HeapQueues : InHeap(h, q, ret)

\* C26: at a reschedule whose current thread is periodic with run_time >=
\* slice, the thread is re-released (deadline = now + period, run_time = 0)
\* and put on runnable if it met its deadline (exit_time <= deadline), and put
\* on pending with its deadline unchanged if it missed it; the next thread
\* comes from runnable, else from aperiodic.
C26_SliceDone ==
    [][(/\ ev'.op = "resched"
        /\ thr[cur].type = PERIODIC
        /\ Billed(thr, cur, now) >= thr[cur].slice)
       => C26_Stated(thr, hp, cur, now, thr', hp', ev'.ret)]_vars
\* what C27 prescribes for a descriptor t that is on pending when a
\* reschedule is entered at time `time`
C27_Stated(T, h, t, time, T2, h2, ret) ==
    IF T[t].deadline <= time
    THEN /\ ~InHeap(h2, PENDING_QUEUE, t)
         /\ (InHeap(h2, RUNNABLE_QUEUE, t) \/ ret = t)
         /\ T[t].type = PERIODIC =>
               (T2[t].deadline = time + T[t].period /\ T2[t].run_time = 0)
    ELSE /\ InHeap(h2, PENDING_QUEUE, t)
         /\ T2[t].deadline = T[t].deadline

\* C27: every descriptor that is on pending with deadline <= now when a
\* reschedule is entered has left pending when it returns, re-released if
\* periodic, and is on runnable or is the returned thread; every descriptor
\* on pending with deadline > now is still on pending.
C27_Drained ==
    [][ev'.op = "resched" =>
         \A t \in Threads :
            InHeap(hp, PENDING_QUEUE, t)
               => C27_Stated(thr, hp, t, now, thr', hp', ev'.ret)]_vars
\* the members of aperiodic in heaps h that are not TOBE_REMOVED in T
LiveAper(T, h) ==
    {t \in {h[APERIODIC_QUEUE][i] : i \in 1..Len(h[APERIODIC_QUEUE])} :
        T[t].status # TOBE_REMOVED}

\* the choice C28 prescribes, for a call that found D after its drain, ran c
\* before, returned ret and left descriptors T2 and heaps h2
C28_Choice(D, c, ret, T2, h2) ==
    IF LiveRun(D) # {}
    THEN /\ ret \in LiveRun(D)
         /\ \A t \in LiveRun(D) : D.thr[ret].deadline <= D.thr[t].deadline
    ELSE (LiveAper(T2, h2) \cup ({c} \ {t \in {c} : T2[t].status = TOBE_REMOVED})) # {}
         => /\ ret # NULLT
            /\ T2[ret].status # TOBE_REMOVED
            /\ \A t \in LiveAper(T2, h2) : T2[ret].priority <= T2[t].priority

C28_Stated(D, c, ret, T2, h2) ==
    /\ D.thr[c].type = APERIODIC
         => /\ T2[c].priority = D.thr[c].run_time
            /\ (InHeap(h2, APERIODIC_QUEUE, c) \/ ret = c
                  \/ T2[c].status = TOBE_REMOVED)
            /\ C28_Choice(D, c, ret, T2, h2)
    /\ (ret # NULLT /\ ret # c /\ InHeap(D.hp, APERIODIC_QUEUE, ret))
         => LiveRun(D) = {}

\* C28: a reschedule entered with an aperiodic thread cur sets cur's priority
\* to its run_time and puts cur on aperiodic (where it stays unless it is
\* returned at once, or dropped as TOBE_REMOVED by the dequeue); it returns the earliest eligible
\* (not TOBE_REMOVED) thread of runnable when there is one, and otherwise the
\* eligible thread of aperiodic with the least priority.  Whatever the class
\* of cur, a thread is taken from aperiodic only when runnable holds no
\* eligible thread.
C28_AperiodicLast ==
    [][ev'.op = "resched"
       => C28_Stated(DrainedWorld, cur, ev'.ret, thr', hp')]_vars
C30_SkipMarksRemoved ==
    [][(ev'.op = "dequeue" /\ ev'.q \in RingQueues)
       => /\ ev'.ret # NULLT => thr[ev'.ret].status # TOBE_REMOVED
          /\ \A t \in Threads :
                (/\ InRing(rg, ev'.q, t)
                 /\ ~InRing(rg', ev'.q, t)
                 /\ thr[t].status = TOBE_REMOVED)
                => thr'[t].status = REMOVED
          /\ IF \E t \in Threads : InRing(rg, ev'.q, t) /\ thr[t].status # TOBE_REMOVED
             THEN ev'.ret = FirstLive(thr, fifo[ev'.q])
             ELSE ev'.ret = NULLT]_vars
\* the descriptors held by the heap array a
HeapMembers(a) == {a[i] : i \in 1..Len(a)}

\* C31: remove_thread(T) on a heap queue removes T and only T: when T is on
\* the queue, the queue afterwards holds the earlier members without T and
\* one entry less; when T is not on it, the queue is unchanged.
C31_RemovesOnlyT ==
    [][(ev'.op = "remove" /\ ev'.q \in HeapQueues)
       => IF InHeap(hp, ev'.q, ev'.t)
          THEN /\ HeapMembers(hp'[ev'.q]) = HeapMembers(hp[ev'.q]) \ {ev'.t}
               /\ Len(hp'[ev'.q]) = Len(hp[ev'.q]) - 1
          ELSE hp'[ev'.q] = hp[ev'.q]]_vars
\* the entries of the ring r from head to tail, oldest first
RingSeq(r) ==
    [k \in 1..umin(r.size, MAX_QUEUE) |-> r.threads[(r.head + k - 1) % MAX_QUEUE]]

\* C32: remove_thread(T) for a member T of a ring terminates, lowers size by
\* one and leaves the other entries in their order between head and the new
\* tail, wherever T stands in the ring.
C32_RingRemove ==
    [][(ev'.op = "remove" /\ ev'.q \in RingQueues /\ InRing(rg, ev'.q, ev'.t))
       => /\ sys' = "RUN"
          /\ rg'[ev'.q].size = rg[ev'.q].size - 1
          /\ RingSeq(rg'[ev'.q]) =
                SelectSeq(RingSeq(rg[ev'.q]), LAMBDA x : x # ev'.t)]_vars
C34_MissedWaits ==
    [][ev'.op = "resched"
       => /\ (/\ thr[cur].type = PERIODIC
              /\ Billed(thr, cur, now) >= thr[cur].slice
              /\ now > thr[cur].deadline)
             => /\ InHeap(hp', PENDING_QUEUE, cur)
                /\ thr'[cur].deadline = thr[cur].deadline
                /\ ev'.ret # cur
          /\ \A t \in Threads :
                (InHeap(hp, PENDING_QUEUE, t) /\ thr[t].type = PERIODIC)
                => /\ InHeap(hp', PENDING_QUEUE, t)
                        => thr'[t].deadline = thr[t].deadline
                   /\ now < thr[t].deadline
                        => (ev'.ret # t /\ InHeap(hp', PENDING_QUEUE, t))
                   /\ now >= thr[t].deadline
                        => ~InHeap(hp', PENDING_QUEUE, t)]_vars
\* what C35 asks of a reschedule that found D after its drain, ran c before,
\* returned ret and left descriptors T2 and runnable h
C35_Stated(D, c, ret, T2, h) ==
    (ret # NULLT /\ T2[ret].type \in {PERIODIC, SPORADIC})
    => /\ \A t \in HeapMembers(h) : T2[ret].deadline <= T2[t].deadline
       /\ BudgetLeft(D, c) => T2[ret].deadline <= T2[c].deadline

\* C35: earliest deadline first: a periodic or sporadic thread returned by a
\* reschedule has a deadline no later than that of every thread left on
\* runnable, and no later than that of the outgoing thread when the outgoing
\* thread is periodic or sporadic with budget left.
C35_EarliestFirst ==
    [][ev'.op = "resched"
       => C35_Stated(DrainedWorld, cur, ev'.ret, thr', hp'[RUNNABLE_QUEUE])]_vars
\* C36: every interval a reschedule writes to the timer is strictly positive
\* and computed without wrap-around: the chosen thread's run_time is strictly
\* below its slice (periodic) or work (sporadic), and the deadline of the
\* root of pending is strictly after now.
C36_PositiveTimer ==
    (ev.op = "resched" /\ ev.ret # NULLT) =>
        /\ apic > 0
        /\ thr[cur].type = PERIODIC => thr[cur].run_time < thr[cur].slice
        /\ thr[cur].type = SPORADIC => thr[cur].run_time < thr[cur].work
        /\ Len(hp[PENDING_QUEUE]) > 0 =>
              thr[hp[PENDING_QUEUE][1]].deadline > now
\* t has used up its slice when a reschedule is entered at time `time` with
\* c running
SliceUsed(T, c, t, time) ==
    (IF t = c THEN Billed(T, c, time) ELSE T[t].run_time) >= T[t].slice

\* a periodic thread that has used up its slice is returned by a reschedule
\* only if the same call releases it again, its deadline having passed
C37_NotBeforeBoundary ==
    \A t \in Threads :
       (thr[t].type = PERIODIC /\ ev'.ret = t /\ SliceUsed(thr, cur, t, now))
       => (t \in ev'.rel /\ now >= thr[t].deadline)

C38_DivisorPositive ==
    [][(ev'.op \in {"admit", "hk"} /\ ev'.t # NULLT /\ thr[ev'.t].type = SPORADIC)
       => \A i \in 1..Len(hp[RUNNABLE_QUEUE]) :
             thr[hp[RUNNABLE_QUEUE][i]].type = SPORADIC
             => /\ thr[hp[RUNNABLE_QUEUE][i]].deadline > now
                /\ SporDivisor(thr, hp[RUNNABLE_QUEUE], i, now) \in 1..(UWRAP \div 2)]_vars
\* the entries of a ring are the size slots from head up to tail
RingCounted(r) ==
    /\ r.size <= MAX_QUEUE
    /\ r.tail = (r.head + r.size) % MAX_QUEUE

\* C39: a reschedule that interrupts a queue operation of the housekeeper
\* leaves no queue corrupted: once the reschedule is over and the housekeeper
\* has completed the operation, heap order holds, no descriptor is on a heap
\* queue twice or on two of them, and the size of every queue is the number
\* of its entries.
C39_Uncorrupted ==
    (hk.pc # "dec") =>
        /\ C2_HeapOrder
        /\ \A t \in Threads : ParkedCount(t) <= 1
        /\ \A q \in RingQueues : RingCounted(rg[q])
\* C40: every queue has 0 <= size <= MAX_QUEUE and every ring queue has head
\* and tail in 0..MAX_QUEUE-1.  A heap queue of the model is the array prefix
\* threads[0..size-1], and its operations touch no slot beyond threads[size],
\* so a slot at an index >= MAX_QUEUE is touched only if a heap grows beyond
\* MAX_QUEUE entries; a size of 0 that is decremented wraps to the largest
\* unsigned value.
C40_InBounds ==
    /\ \A q \in HeapQueues : Len(hp[q]) <= MAX_QUEUE
    /\ \A q \in RingQueues :
          /\ rg[q].size \in 0..MAX_QUEUE
          /\ rg[q].head \in 0..(MAX_QUEUE - 1)
          /\ rg[q].tail \in 0..(MAX_QUEUE - 1)
====
